---------------------------- MODULE Spec2Model ----------------------------
(***************************************************************************)
(* A model of the text codecs of geoclaw-4.x:                              *)
(*   - dclaw/topotools.py : topoheaderread, topofile2griddata,             *)
(*     griddata2topofile, griddatasubset, topofilesubset                   *)
(*   - pyclaw/io/ascii.py : write_ascii, read_ascii, read_ascii_t          *)
(*                                                                         *)
(* Files are sequences of lines, a line is the sequence of its             *)
(* whitespace-separated tokens (what str.split() returns), a token is a    *)
(* string.  Numbers are integers: every coordinate, cell size and cell     *)
(* value of the model is an integer-valued float.                          *)
(***************************************************************************)
EXTENDS Integers, Sequences, FiniteSets, TLC

VARIABLES
    \* ---- topoheaderread (topotools.py 448-519)
    hfile,        \* the header file as stored, before any token swap
    fpos,         \* number of lines fid.readline() has consumed
    topoheader,   \* the dictionary being filled
    keyleft,      \* the loop counter of line 489
    hpc,          \* "loop", "returned", or the exception that ended the call
    hswapped,     \* some line read so far was presented with its tokens swapped
    spin          \* parity of the readline() calls made at end of file

hvars == <<hfile, fpos, topoheader, keyleft, hpc, hswapped, spin>>

VARIABLES
    \* ---- griddata2topofile / topofile2griddata (topotools.py 525-648)
    topotype,     \* the topotype argument of both calls
    ingrid,       \* the arrays X, Y, Q and nodata_value_out given to griddata2topofile
    nodatain,     \* nodata_value_in given to griddata2topofile
    disk,         \* the topo file: whether it exists, and its lines
    gpc,          \* "start", "written" (griddata2topofile has ended), "read"
    wstatus,      \* how griddata2topofile ended
    rstatus,      \* how topofile2griddata ended
    outgrid,      \* the arrays X, Y, Z topofile2griddata returned
    gwarned       \* griddata2topofile printed the cellsize warning (lines 622-626)

gvars == <<topotype, ingrid, nodatain, disk, gpc, wstatus, rstatus, outgrid, gwarned>>

VARIABLES
    \* ---- topofilesubset (topotools.py 936-1036)
    srcfile,      \* inputfile: a topo file of type 2 or 3
    topotypein,   \* its type
    box,          \* xlow, xhi, ylow, yhi
    cpc,          \* cheap=True call: "start", "loop", "done" or the exception
    theadin,      \* topoheaderin
    theadout,     \* theadout
    row,          \* loop index of line 1017
    col,          \* loop index of line 1019
    rpos,         \* number of lines of inputfile fidin has consumed
    outpts,       \* line 1012
    writtenpts,   \* line 1013
    cheapout,     \* outputfile of the cheap=True call
    fullpc,       \* cheap=False call: "start", "done"
    fullstatus,   \* how the cheap=False call ended
    fullout       \* outputfile of the cheap=False call

svars == <<srcfile, topotypein, box, cpc, theadin, theadout, row, col, rpos,
           outpts, writtenpts, cheapout, fullpc, fullstatus, fullout>>

VARIABLES
    \* ---- write_ascii and read_ascii (ascii.py 29-171, 174-413)
    solution,     \* the solution given to write_ascii: its patches (grids)
    frame,        \* frame number of both calls
    file_prefix,  \* file_prefix of both calls
    write_aux,    \* write_aux of write_ascii
    read_aux,     \* read_aux of read_ascii
    path,         \* the directory `path`: file name -> lines
    auxgiven,     \* the patches of the aux file another program left in path
    qgiven,       \* the frame another program left in path: "none", "empty",
                  \* "recut", "qshort" or "auxshort"
    target,       \* the solution given to read_ascii: its patches
    apc,          \* "start", "written", "read"
    awstatus,     \* how write_ascii ended
    arstatus      \* how read_ascii ended

avars == <<solution, frame, file_prefix, write_aux, read_aux, path, auxgiven, qgiven, target,
           apc, awstatus, arstatus>>

VARIABLES
    \* ---- topofilefindz and griddatafindz (topotools.py 774-853, 857-932)
    findfile,     \* inputfile of topofilefindz when it is a file name
    findtype,     \* topotypein
    findgrid,     \* (X, Y, Z): griddatafindz's grid, topofilefindz's tuple
    pts,          \* the query points, <<x, y>> each
    fpc,          \* "start", then "file", "grid" after the call made
    fstatus,      \* how the call ended
    z             \* the list returned

fvars == <<findfile, findtype, findgrid, pts, fpc, fstatus, z>>

VARIABLES
    \* ---- merge_topofiles (topotools.py 1387-1447)
    mgrid,        \* X, Y: the cell centres of the output grid
    mfile1,       \* inputfile1, the primary topo file
    mfile2,       \* inputfile2, the secondary topo file
    mtype1,       \* topotypein1
    mtype2,       \* topotypein2
    mnodata,      \* nodata_valuein: given or None
    mout,         \* outputfile
    mpc,          \* "start", "done"
    mstatus,      \* how the call ended
    mZ            \* Z as it stands when the call ends

mvars == <<mgrid, mfile1, mfile2, mtype1, mtype2, mnodata, mout, mpc, mstatus, mZ>>

VARIABLES
    \* ---- converttopotype, topofilesubset (cheap=False), topofilesubsample
    \*      (topotools.py 731-746, 956-971, 1041-1074)
    kfile,        \* inputfile
    ktypein,      \* topotypein
    ktypeout,     \* topotypeout
    knodata,      \* nodata_value: given or None
    kout,         \* outputfile
    kpc,          \* "start", then the name of the function called
    kstatus       \* how the call ended

kvars == <<kfile, ktypein, ktypeout, knodata, kout, kpc, kstatus>>

VARIABLES
    \* ---- griddatasubset (topotools.py 752-769)
    subgrid,      \* X, Y, Z given to the call
    subbox,       \* xlow, xhi, ylow, yhi
    subout,       \* Xsub, Ysub, Zsub returned
    bpc           \* "start", "done"

bvars == <<subgrid, subbox, subout, bpc>>

VARIABLES
    \* ---- topo1writer and topo2writer (topotools.py 136-166, 170-234)
    wargs,        \* topo, xlower, xupper, ylower, yupper, nxpoints, nypoints
    wfile1,       \* outfile of topo1writer
    wfile2,       \* outfile of topo2writer
    wpc1,         \* topo1writer: "start", "returned" or the exception
    wpc2          \* topo2writer: "start", "returned" or the exception

wvars == <<wargs, wfile1, wfile2, wpc1, wpc2>>

VARIABLES
    \* ---- set_show (frametools.py 1899-1933)
    plotdata,     \* the figures of plotdata._fignames, each with show, _show
                  \* and its axes; an axes with show, _show, afteraxes, type
                  \* and its items; an item with show, _show
    ppc           \* "start", "returned" after set_show, "changed" after a
                  \* show flag was changed

pvars == <<plotdata, ppc>>

\* The sampling, merging, converting, subsetting and writing tools of
\* topotools.py, and the plot data of frametools.py.
tvars == <<fvars, mvars, kvars, bvars, wvars, pvars>>

vars == <<hvars, gvars, svars, avars, tvars>>

\* What an operation on one component leaves alone.
nonhvars == <<gvars, svars, avars, tvars>>

nongvars == <<hvars, svars, avars, tvars>>

nonsvars == <<hvars, gvars, avars, tvars>>

nonavars == <<hvars, gvars, svars, tvars>>

nonfvars == <<hvars, gvars, svars, avars, mvars, kvars, bvars, wvars, pvars>>

nonmvars == <<hvars, gvars, svars, avars, fvars, kvars, bvars, wvars, pvars>>

nonkvars == <<hvars, gvars, svars, avars, fvars, mvars, bvars, wvars, pvars>>

nonbvars == <<hvars, gvars, svars, avars, fvars, mvars, kvars, wvars, pvars>>

nonwvars == <<hvars, gvars, svars, avars, fvars, mvars, kvars, bvars, pvars>>

nonpvars == <<hvars, gvars, svars, avars, fvars, mvars, kvars, bvars, wvars>>

-----------------------------------------------------------------------------
(* Generic helpers                                                         *)

Range(f) == {f[i] : i \in DOMAIN f}

\* s with x inserted so that it becomes element number p+1
InsertAt(s, p, x) == SubSeq(s, 1, p) \o <<x>> \o SubSeq(s, p + 1, Len(s))

-----------------------------------------------------------------------------
(* Tokens                                                                  *)

\* str.lower() on the tokens of the model: the upper-case spellings that occur
\* in header files (esriheaderwrite writes them) and the identity elsewhere.
LowerTab ==
    [w \in {"NCOLS", "NROWS", "XLLCORNER", "YLLCORNER", "CELLSIZE",
            "NODATA_VALUE", "XLLCENTER"} |->
        CASE w = "NCOLS" -> "ncols"
          [] w = "NROWS" -> "nrows"
          [] w = "XLLCORNER" -> "xllcorner"
          [] w = "YLLCORNER" -> "yllcorner"
          [] w = "CELLSIZE" -> "cellsize"
          [] w = "NODATA_VALUE" -> "nodata_value"
          [] w = "XLLCENTER" -> "xllcenter"]

Lower(w) == IF w \in DOMAIN LowerTab THEN LowerTab[w] ELSE w

\* iotools.convertd2e: a Fortran double-precision exponent letter (d, D) becomes e.
\* The other tokens of the model hold no d and are returned as they are.
D2ETab == [w \in {"1d1", "2D0"} |-> IF w = "1d1" THEN "1e1" ELSE "2e0"]

convertd2e(w) == IF w \in DOMAIN D2ETab THEN D2ETab[w] ELSE w

\* The numeric literals of the model (after convertd2e): fl says that the text
\* holds ".", "e" or "nan", which is what lines 506-513 test to choose float()
\* over int(); val is the number.
NumLit ==
    [w \in {"1", "2", "3", "4", "5", "6", "7", "-9999",
            "0.0", "1.0", "2.0", "3.0", "4.0", "5.0", "6.0", "10.0",
            "1e1", "2e0", "9999.0"} |->
        CASE w = "1" -> [fl |-> FALSE, val |-> 1]
          [] w = "2" -> [fl |-> FALSE, val |-> 2]
          [] w = "3" -> [fl |-> FALSE, val |-> 3]
          [] w = "4" -> [fl |-> FALSE, val |-> 4]
          [] w = "5" -> [fl |-> FALSE, val |-> 5]
          [] w = "6" -> [fl |-> FALSE, val |-> 6]
          [] w = "7" -> [fl |-> FALSE, val |-> 7]
          [] w = "-9999" -> [fl |-> FALSE, val |-> -9999]
          [] w = "0.0" -> [fl |-> TRUE, val |-> 0]
          [] w = "1.0" -> [fl |-> TRUE, val |-> 1]
          [] w = "2.0" -> [fl |-> TRUE, val |-> 2]
          [] w = "3.0" -> [fl |-> TRUE, val |-> 3]
          [] w = "4.0" -> [fl |-> TRUE, val |-> 4]
          [] w = "5.0" -> [fl |-> TRUE, val |-> 5]
          [] w = "6.0" -> [fl |-> TRUE, val |-> 6]
          [] w = "10.0" -> [fl |-> TRUE, val |-> 10]
          [] w = "1e1" -> [fl |-> TRUE, val |-> 10]
          [] w = "2e0" -> [fl |-> TRUE, val |-> 2]
          [] w = "9999.0" -> [fl |-> TRUE, val |-> 9999]]

IsNumber(w) == w \in DOMAIN NumLit

\* float(w) for a token that is a number
Float(w) == NumLit[w].val

-----------------------------------------------------------------------------
(* topoheaderread                                                          *)

keylist == <<"ncols", "nrows", "xll", "yll", "cellsize", "nodata_value">>

keymap ==
    [k \in {"ncols", "nrows", "xll", "yll", "cellsize", "nodata_value",
            "xllcenter", "yllcenter", "xllcorner", "yllcorner",
            "xlower", "ylower"} |->
        CASE k \in {"xll", "xllcenter", "xllcorner", "xlower"} -> "xll"
          [] k \in {"yll", "yllcenter", "yllcorner", "ylower"} -> "yll"
          [] OTHER -> k]

IsKey(w) == Lower(w) \in DOMAIN keymap

\* The dictionary of lines 463-470: every entry starts as a number (0 or 0.0),
\* not a string; isstr tells the two apart.
Unset == [isstr |-> FALSE, tok |-> "0"]

topoheader0 == [k \in Range(keylist) |-> Unset]

\* HeaderLineStep without the test of line 493: a key in the first column is
\* not recognised.
HeaderLineStep_KeyFirstIgnored(hdr, left, line) ==
    IF line = <<>>
    THEN [hdr |-> hdr, left |-> left, err |-> "none"]
    ELSE IF Len(line) < 2
    THEN [hdr |-> hdr, left |-> left, err |-> "IndexError"]
    ELSE IF IsKey(line[2])
    THEN [hdr |-> [hdr EXCEPT ![keymap[Lower(line[2])]] =
                      [isstr |-> TRUE, tok |-> convertd2e(line[1])]],
          left |-> left - 1, err |-> "none"]
    ELSE [hdr |-> hdr, left |-> left, err |-> "none"]

\* One iteration of the while loop (lines 491-498) on the split line.
\* line[1] and line[2] are Python's line[0] and line[1].
HeaderLineStep(hdr, left, line) ==
    IF line = <<>>
    THEN [hdr |-> hdr, left |-> left, err |-> "none"]
    ELSE
      LET hit0 == IsKey(line[1])
          \* line 494 reads line[1]: IndexError on a one-token line
          err0 == hit0 /\ Len(line) < 2
          hdr0 == IF hit0 /\ ~err0
                  THEN [hdr EXCEPT ![keymap[Lower(line[1])]] =
                            [isstr |-> TRUE, tok |-> convertd2e(line[2])]]
                  ELSE hdr
          left0 == IF hit0 /\ ~err0 THEN left - 1 ELSE left
      IN  IF err0 \/ Len(line) < 2
          THEN \* line 496 reads line[1] too
               [hdr |-> hdr0, left |-> left0, err |-> "IndexError"]
          ELSE IF IsKey(line[2])
          THEN [hdr |-> [hdr0 EXCEPT ![keymap[Lower(line[2])]] =
                            [isstr |-> TRUE, tok |-> convertd2e(line[1])]],
                left |-> left0 - 1, err |-> "none"]
          ELSE [hdr |-> hdr0, left |-> left0, err |-> "none"]

\* ConvertEntry with the defaults of lines 463-470 given as strings ("0"): an
\* entry no line has set is converted like any other.
ConvertEntry_DefaultsAreStrings(e) ==
    IF ~e.isstr THEN [err |-> "none", kind |-> "int", val |-> 0]
    ELSE IF ~IsNumber(e.tok) THEN [err |-> "ValueError", kind |-> "none", val |-> 0]
    ELSE [err |-> "none",
          kind |-> IF NumLit[e.tok].fl THEN "float" ELSE "int",
          val |-> NumLit[e.tok].val]

\* Lines 506-513 on one entry: the `in` tests raise TypeError on a number,
\* float()/int() raise ValueError on a string that is no number.
ConvertEntry(e) ==
    IF ~e.isstr THEN [err |-> "TypeError", kind |-> "none", val |-> 0]
    ELSE IF ~IsNumber(e.tok) THEN [err |-> "ValueError", kind |-> "none", val |-> 0]
    ELSE [err |-> "none",
          kind |-> IF NumLit[e.tok].fl THEN "float" ELSE "int",
          val |-> NumLit[e.tok].val]

\* The for loop of lines 501-513: the first entry (in keylist order) that
\* cannot be converted ends the call.
RECURSIVE ConvertFrom(_, _)
ConvertFrom(hdr, i) ==
    IF i > Len(keylist) THEN "none"
    ELSE IF ConvertEntry(hdr[keylist[i]]).err # "none"
         THEN ConvertEntry(hdr[keylist[i]]).err
         ELSE ConvertFrom(hdr, i + 1)

ConvertHeader(hdr) ==
    [err |-> ConvertFrom(hdr, 1),
     hdr |-> [k \in Range(keylist) |->
                [kind |-> ConvertEntry(hdr[k]).kind, val |-> ConvertEntry(hdr[k]).val]]]

\* topoheaderread as a function of the file: the loop from line `pos` on, then
\* the conversion.  status is "returned", the exception raised, or "hang" when
\* the loop is still running at end of file, where readline() returns "" for ever.
RECURSIVE HeaderLoop(_, _, _, _)
HeaderLoop(file, pos, hdr, left) ==
    IF left <= 0
    THEN LET c == ConvertHeader(hdr)
         IN  [status |-> IF c.err = "none" THEN "returned" ELSE c.err,
              hdr |-> c.hdr, raw |-> hdr, fpos |-> pos]
    ELSE IF pos >= Len(file)
    THEN [status |-> "hang", hdr |-> ConvertHeader(hdr).hdr, raw |-> hdr, fpos |-> pos]
    ELSE LET s == HeaderLineStep(hdr, left, file[pos + 1])
         IN  IF s.err # "none"
             THEN [status |-> s.err, hdr |-> ConvertHeader(s.hdr).hdr,
                   raw |-> s.hdr, fpos |-> pos + 1]
             ELSE HeaderLoop(file, pos + 1, s.hdr, s.left)

topoheaderread(file) == HeaderLoop(file, 0, topoheader0, Len(keylist))


-----------------------------------------------------------------------------
(* Header files given to topoheaderread                                    *)

\* What topoheaderwrite (lines 399-404) writes: value first, key second.
HeaderWritten ==
    << <<"3", "ncols">>, <<"2", "nrows">>, <<"0.0", "xll">>, <<"0.0", "yll">>,
       <<"1.0", "cellsize">>, <<"-9999", "nodata_value">> >>

\* What esriheaderwrite (lines 434-439) writes: upper-case key first.
HeaderEsri ==
    << <<"NCOLS", "2">>, <<"NROWS", "3">>, <<"XLLCORNER", "10.0">>,
       <<"YLLCORNER", "5.0">>, <<"CELLSIZE", "2.0">>, <<"NODATA_VALUE", "9999.0">> >>

\* A header of another producer: synonyms, Fortran exponents.
HeaderFortran ==
    << <<"4", "ncols">>, <<"2", "nrows">>, <<"1d1", "xlower">>, <<"0.0", "ylower">>,
       <<"2D0", "cellsize">>, <<"-9999", "nodata_value">> >>

BaseHeaders == {HeaderWritten, HeaderEsri, HeaderFortran}

\* Lines that may stand between the header lines: a blank line, lines holding
\* no key (two and three tokens), a one-token line, a second line for a key
\* already given (by the same name, by a synonym), a line of two keys.
ExtraLines ==
    { <<>>, <<"foo", "bar">>, <<"7", "north", "edge">>, <<"foo">>,
      <<"7", "ncols">>, <<"5.0", "XLLCENTER">>, <<"ncols", "nrows">> }

\* The number of such lines in a file is at most MaxExtra.
MaxExtra == 1

RECURSIVE WithExtras(_, _)
WithExtras(files, n) ==
    IF n = 0 THEN files
    ELSE WithExtras(files \cup
                    {InsertAt(f, p, x) : <<f, p, x>> \in
                        {t \in files \X (0 .. Len(keylist) + MaxExtra) \X ExtraLines :
                            t[2] <= Len(t[1])}},
                    n - 1)

\* Every prefix of a base header (a file that ends early) with extra lines.
HeaderFiles ==
    WithExtras({SubSeq(b, 1, n) : <<b, n>> \in BaseHeaders \X (0 .. Len(keylist))},
               MaxExtra)

SwapTokens(line) == <<line[2], line[1]>>

-----------------------------------------------------------------------------
(* topoheaderread, one loop iteration at a time                            *)

\* No grid is being written or read.
NoGrid == [X |-> <<>>, Y |-> <<>>, Z |-> <<>>, nodata |-> 0]

NoFile == [exists |-> FALSE, lines |-> <<>>]

GridIdle ==
    /\ topotype = 2
    /\ ingrid = NoGrid
    /\ nodatain = 0
    /\ disk = NoFile
    /\ gpc = "idle"
    /\ wstatus = "none"
    /\ rstatus = "none"
    /\ outgrid = NoGrid
    /\ gwarned = FALSE

NoHeader == [k \in Range(keylist) |-> [kind |-> "none", val |-> 0]]

NoBox == [xlow |-> 0, xhi |-> 0, ylow |-> 0, yhi |-> 0]

SubsetIdle ==
    /\ srcfile = NoFile
    /\ topotypein = 2
    /\ box = NoBox
    /\ cpc = "idle"
    /\ theadin = NoHeader
    /\ theadout = NoHeader
    /\ row = 0
    /\ col = 0
    /\ rpos = 0
    /\ outpts = 0
    /\ writtenpts = 0
    /\ cheapout = NoFile
    /\ fullpc = "idle"
    /\ fullstatus = "none"
    /\ fullout = NoFile

NoFiles == [name \in {} |-> <<>>]

AmrIdle ==
    /\ solution = <<>>
    /\ frame = 0
    /\ file_prefix = "fort"
    /\ write_aux = FALSE
    /\ read_aux = FALSE
    /\ path = NoFiles
    /\ auxgiven = <<>>
    /\ qgiven = "none"
    /\ target = <<>>
    /\ apc = "idle"
    /\ awstatus = "none"
    /\ arstatus = "none"

FindIdle ==
    /\ findfile = NoFile
    /\ findtype = 2
    /\ findgrid = NoGrid
    /\ pts = <<>>
    /\ fpc = "idle"
    /\ fstatus = "none"
    /\ z = <<>>

NoValueGiven == [given |-> FALSE, val |-> 0]

MergeIdle ==
    /\ mgrid = NoGrid
    /\ mfile1 = NoFile
    /\ mfile2 = NoFile
    /\ mtype1 = 2
    /\ mtype2 = 2
    /\ mnodata = NoValueGiven
    /\ mout = NoFile
    /\ mpc = "idle"
    /\ mstatus = "none"
    /\ mZ = <<>>

ConvertIdle ==
    /\ kfile = NoFile
    /\ ktypein = 1
    /\ ktypeout = 2
    /\ knodata = NoValueGiven
    /\ kout = NoFile
    /\ kpc = "idle"
    /\ kstatus = "none"

GridSubsetIdle ==
    /\ subgrid = NoGrid
    /\ subbox = NoBox
    /\ subout = NoGrid
    /\ bpc = "idle"

NoArgs == [topo |-> "none", xlower |-> 0, xupper |-> 0, ylower |-> 0, yupper |-> 0,
           nxpoints |-> 0, nypoints |-> 0]

WriterIdle ==
    /\ wargs = NoArgs
    /\ wfile1 = NoFile
    /\ wfile2 = NoFile
    /\ wpc1 = "idle"
    /\ wpc2 = "idle"

PlotIdle ==
    /\ plotdata = <<>>
    /\ ppc = "idle"

ToolsIdle ==
    FindIdle /\ MergeIdle /\ ConvertIdle /\ GridSubsetIdle /\ WriterIdle /\ PlotIdle

HeaderIdle ==
    /\ hfile = <<>>
    /\ fpos = 0
    /\ topoheader = topoheader0
    /\ keyleft = 0
    /\ hpc = "idle"
    /\ hswapped = FALSE
    /\ spin = 0

HeaderInit ==
    /\ GridIdle
    /\ SubsetIdle
    /\ AmrIdle
    /\ ToolsIdle
    /\ hfile \in HeaderFiles
    /\ fpos = 0
    /\ topoheader = topoheader0
    /\ keyleft = Len(keylist)
    /\ hpc = "loop"
    /\ hswapped = FALSE
    /\ spin = 0

\* Lines 490-498 with a line left in the file.  The file read is hfile with the
\* two tokens of any of its two-token lines swapped (sw).
TopoHeaderReadLine ==
    /\ hpc = "loop"
    /\ keyleft > 0
    /\ fpos < Len(hfile)
    /\ \E sw \in BOOLEAN :
         /\ sw => Len(hfile[fpos + 1]) = 2
         /\ LET line == IF sw THEN SwapTokens(hfile[fpos + 1]) ELSE hfile[fpos + 1]
                s == HeaderLineStep(topoheader, keyleft, line)
            IN  /\ topoheader' = s.hdr
                /\ keyleft' = s.left
                /\ hpc' = IF s.err = "none" THEN "loop" ELSE s.err
         /\ hswapped' = (hswapped \/ sw)
    /\ fpos' = fpos + 1
    /\ UNCHANGED <<hfile, spin, nonhvars>>

\* Lines 490-492 at end of file: readline() returns "", the split line is
\* empty, nothing is assigned and the loop condition is tested again.
TopoHeaderReadEOF ==
    /\ hpc = "loop"
    /\ keyleft > 0
    /\ fpos >= Len(hfile)
    /\ spin' = 1 - spin
    /\ UNCHANGED <<hfile, fpos, topoheader, keyleft, hpc, hswapped, nonhvars>>

\* Lines 500-519: the loop has ended, the entries are converted and returned.
TopoHeaderConvert ==
    /\ hpc = "loop"
    /\ keyleft <= 0
    /\ LET c == ConvertHeader(topoheader)
       IN  /\ hpc' = IF c.err = "none" THEN "returned" ELSE c.err
           /\ topoheader' = IF c.err = "none" THEN c.hdr ELSE topoheader
    /\ UNCHANGED <<hfile, fpos, keyleft, hswapped, spin, nonhvars>>

HeaderNext == TopoHeaderReadLine \/ TopoHeaderReadEOF \/ TopoHeaderConvert

SpecHeader == HeaderInit /\ [][HeaderNext]_vars

\* The interpreter keeps running the loop it is in.
SpecHeaderFair == SpecHeader /\ WF_vars(HeaderNext)


-----------------------------------------------------------------------------
(* Claims about topoheaderread                                             *)

\* What a call leaves behind: how it ended, the dictionary, the file position.
HeaderOutcome(r) ==
    [status |-> r.status,
     hdr |-> IF r.status = "returned" THEN r.hdr ELSE r.raw,
     fpos |-> r.fpos]

\* C3: header parsing is order-independent.  Reading the file with the two
\* tokens of any of its two-token lines swapped ends as reading the stored file
\* does: the same way (returned, or the same exception, or still looping at end
\* of file), with the same header and at the same line.
C3_OrderIndependent ==
    LET r == HeaderOutcome(topoheaderread(hfile))
    IN  /\ hpc # "loop" =>
              r = [status |-> hpc, hdr |-> topoheader, fpos |-> fpos]
        /\ (hpc = "loop" /\ keyleft > 0 /\ fpos >= Len(hfile)) => r.status = "hang"

\* A header was returned after at least one line was read with its tokens swapped.
C3_Witness == hpc = "returned" /\ hswapped

\* Line i of the file gives key k the value v, in either column order.
LineSets(line, k, v) ==
    /\ Len(line) >= 2
    /\ \/ /\ IsKey(line[1])
          /\ keymap[Lower(line[1])] = k
          /\ ConvertEntry([isstr |-> TRUE, tok |-> convertd2e(line[2])]) =
                 [err |-> "none", kind |-> v.kind, val |-> v.val]
       \/ /\ IsKey(line[2])
          /\ keymap[Lower(line[2])] = k
          /\ ConvertEntry([isstr |-> TRUE, tok |-> convertd2e(line[1])]) =
                 [err |-> "none", kind |-> v.kind, val |-> v.val]

\* A line that holds no token, or two or more tokens of which the first two
\* are no keys.
IsSkipped(line) == line = <<>> \/ (Len(line) >= 2 /\ ~IsKey(line[1]) /\ ~IsKey(line[2]))

RECURSIVE WithoutSkipped(_)
WithoutSkipped(file) ==
    IF file = <<>> THEN <<>>
    ELSE IF IsSkipped(Head(file)) THEN WithoutSkipped(Tail(file))
    ELSE <<Head(file)>> \o WithoutSkipped(Tail(file))

C5_EndOfFileIsAnError ==
    (hpc = "loop" /\ keyleft > 0 /\ fpos >= Len(hfile)) ~> (hpc \notin {"loop", "returned"})


-----------------------------------------------------------------------------
(* topofile2griddata and griddata2topofile                                 *)

\* A two-dimensional array is the sequence of its rows; row 1 is Python's row 0.

RECURSIVE Flatten(_)
Flatten(lines) == IF lines = <<>> THEN <<>> ELSE Head(lines) \o Flatten(Tail(lines))

GridFail(e) == [status |-> e, X |-> <<>>, Y |-> <<>>, Z |-> <<>>]

\* topofile2griddata (lines 536-573).
\*   538-543  every token of every remaining line goes through convertd2e and float()
\*   545      np.array of the list of rows: rows of unequal length make no
\*            two-dimensional array of floats (numpy raises ValueError; an older
\*            numpy builds an array of lists, which line 546 cannot reshape into
\*            a grid of numbers either)
\*   546      np.reshape to (nrows, ncols): the number of values must be nrows*ncols
\*   548-557  X and Y from xll, yll and cellsize, Y flipped so that row 0 is north
\*   559-563  topotype 1: (xdiff < 0).np raises AttributeError
GridOfData(hdr, zdata, toks) ==
    IF \E i \in 1 .. Len(toks) : ~IsNumber(convertd2e(toks[i]))
    THEN GridFail("ValueError")
    ELSE IF \E i, j \in 1 .. Len(zdata) : Len(zdata[i]) # Len(zdata[j])
    THEN GridFail("ValueError")
    ELSE IF hdr["nrows"].kind # "int" \/ hdr["ncols"].kind # "int"
    THEN GridFail("TypeError")
    ELSE IF Len(toks) # hdr["nrows"].val * hdr["ncols"].val
    THEN GridFail("ValueError")
    ELSE [status |-> "ok",
          X |-> [r \in 1 .. hdr["nrows"].val |-> [c \in 1 .. hdr["ncols"].val |->
                    hdr["xll"].val + (c - 1) * hdr["cellsize"].val]],
          Y |-> [r \in 1 .. hdr["nrows"].val |-> [c \in 1 .. hdr["ncols"].val |->
                    hdr["yll"].val + (hdr["nrows"].val - r) * hdr["cellsize"].val]],
          Z |-> [r \in 1 .. hdr["nrows"].val |-> [c \in 1 .. hdr["ncols"].val |->
                    Float(convertd2e(toks[(r - 1) * hdr["ncols"].val + c]))]]]

GridOfFile(h, lines) ==
    IF h.status # "returned" THEN GridFail(h.status)
    ELSE GridOfData(h.hdr, SubSeq(lines, h.fpos + 1, Len(lines)),
                    Flatten(SubSeq(lines, h.fpos + 1, Len(lines))))

\* topofile2griddata whose type-1 branch returns arrays (the first node).
topofile2griddata_Type1Loads(inputfile, tt) ==
    IF ~inputfile.exists THEN GridFail("IOError")
    ELSE IF tt > 1 THEN GridOfFile(topoheaderread(inputfile.lines), inputfile.lines)
    ELSE [status |-> "ok", X |-> << <<0>> >>, Y |-> << <<0>> >>, Z |-> << <<1>> >>]

topofile2griddata(inputfile, tt) ==
    IF ~inputfile.exists THEN GridFail("IOError")
    ELSE IF tt > 1 THEN GridOfFile(topoheaderread(inputfile.lines), inputfile.lines)
    ELSE GridFail("AttributeError")

\* The header griddata2topofile composes (lines 592-619) from the cell centres:
\* cellsize is the x spacing, (xll, yll) the lower left centre less half a cell.
GridHeader(X, Y, Z, nodata_value_out) ==
    LET nrows == Len(Z)
        ncols == Len(Z[1])
        xllcc == X[1][1]
        yllcc == Y[nrows][1]
        cellsizeX == (X[1][ncols] - xllcc) \div (ncols - 1)
        cellsizeY == (Y[1][1] - yllcc) \div (nrows - 1)
    IN  [ncols |-> ncols, nrows |-> nrows,
         xll |-> xllcc - cellsizeX \div 2, yll |-> yllcc - cellsizeY \div 2,
         cellsize |-> cellsizeX, nodata_value |-> nodata_value_out]

\* griddata2topofile (lines 578-648).  Its parameters are X, Y, Q, but the body
\* reads Z from its first statement on (line 592: nrows = len(Z[:, 0])).  Z is
\* neither a parameter nor a name of the module, so that statement raises
\* NameError: no file is opened and outputfile stays as it was, and the test
\* of line 621 before the warning is not reached.
griddata2topofile(X, Y, Q, outputfile, tt, nodata_value_in, nodata_value_out) ==
    [status |-> "NameError", disk |-> outputfile, warned |-> FALSE]

-----------------------------------------------------------------------------
(* Grids and topo files given to the two calls                             *)

\* Grids have up to MaxRows rows and MaxCols columns.
MaxRows == 2

MaxCols == 3

IntTok == <<"1", "2", "3", "4", "5", "6", "7">>

\* The k-th value of a data block: distinct neighbours, one Fortran exponent.
ZToks == <<"1.0", "2.0", "3.0", "4.0", "5.0", "6.0", "1d1">>

DataTok(k) == ZToks[((k - 1) % Len(ZToks)) + 1]

\* The tokens 1 .. m cut into lines after every position of breaks.
RECURSIVE CutLines(_, _, _, _)
CutLines(m, breaks, k, line) ==
    IF k > m THEN (IF line = <<>> THEN <<>> ELSE <<line>>)
    ELSE IF k \in breaks
    THEN <<Append(line, DataTok(k))>> \o CutLines(m, breaks, k + 1, <<>>)
    ELSE CutLines(m, breaks, k + 1, Append(line, DataTok(k)))

GridFileHeader(nrows, ncols) ==
    << <<IntTok[ncols], "ncols">>, <<IntTok[nrows], "nrows">>, <<"0.0", "xll">>,
       <<"0.0", "yll">>, <<"2.0", "cellsize">>, <<"-9999", "nodata_value">> >>

\* Topo files of type 2 and 3 of any producer: a header, then the nrows*ncols
\* values cut into lines in every possible way (one per line, one row per line,
\* rows wrapped over lines of any lengths).
GridFiles ==
    UNION { UNION { { [exists |-> TRUE,
                       lines |-> GridFileHeader(nr, nc) \o
                                 CutLines(nr * nc, breaks, 1, <<>>)] :
                         breaks \in SUBSET (1 .. nr * nc - 1) } :
                    nc \in 1 .. MaxCols } :
            nr \in 1 .. MaxRows }

\* In-memory grids: cell centres x0 + c*cs, rows from north to south.
CellValue(pattern, r, c, ncols) ==
    CASE pattern = "ramp" -> (r - 1) * ncols + c
      [] pattern = "hole" -> IF r = 1 /\ c = 2 THEN -9999 ELSE r + c
      [] OTHER -> 7

Grids ==
    { [X |-> [r \in 1 .. t[1] |-> [c \in 1 .. t[2] |-> t[3] + (c - 1) * t[4]]],
       Y |-> [r \in 1 .. t[1] |-> [c \in 1 .. t[2] |-> (t[1] - r) * t[4]]],
       Z |-> [r \in 1 .. t[1] |-> [c \in 1 .. t[2] |-> CellValue(t[5], r, c, t[2])]],
       nodata |-> t[6]] :
         t \in (2 .. MaxRows) \X (2 .. MaxCols) \X {0, 10} \X {2, 4}
                 \X {"ramp", "hole", "flat"} \X {-9999, 9999} }

\* The same grids with the rows of Y from south to north: not the layout
\* griddata2topofile expects (line 603).
FlippedGrids ==
    { [g EXCEPT !.Y = [r \in 1 .. Len(g.Y) |-> g.Y[Len(g.Y) + 1 - r]]] : g \in Grids }

\* Type-1 files of at least two rows and two columns: one line "x y z" per node, the rows
\* from north to south, no header.
XYZFiles ==
    { [exists |-> TRUE,
       lines |-> [k \in 1 .. t[1] * t[2] |->
                    <<IntTok[((k - 1) % t[2]) + 1], IntTok[t[1] - ((k - 1) \div t[2])],
                      DataTok(k)>>]] :
        t \in (2 .. MaxRows) \X (2 .. MaxCols) }

\* The same grids with the rows twice as far apart as the columns.
StretchedGrids ==
    { [g EXCEPT !.Y = [r \in 1 .. Len(g.Y) |-> [c \in 1 .. Len(g.Y[r]) |-> 2 * g.Y[r][c]]]] :
        g \in Grids }

-----------------------------------------------------------------------------
(* The two calls as operations on the topo file                            *)

GridInit ==
    /\ HeaderIdle
    /\ SubsetIdle
    /\ AmrIdle
    /\ ToolsIdle
    /\ topotype \in {1, 2, 3}
    /\ \/ ingrid \in Grids \cup FlippedGrids \cup StretchedGrids /\ nodatain \in {-9999, 9999} /\ disk = NoFile
       \/ ingrid = NoGrid /\ nodatain = 0 /\ disk \in GridFiles
       \/ ingrid = NoGrid /\ nodatain = 0 /\ disk \in XYZFiles /\ topotype = 1
    /\ gpc = "start"
    /\ wstatus = "none"
    /\ rstatus = "none"
    /\ outgrid = NoGrid
    /\ gwarned = FALSE

\* griddata2topofile(X, Y, Z, outputfile, topotype, nodata_value_in, nodata_value_out)
Griddata2Topofile ==
    /\ gpc = "start"
    /\ ingrid # NoGrid
    /\ LET w == griddata2topofile(ingrid.X, ingrid.Y, ingrid.Z, disk, topotype,
                                  nodatain, ingrid.nodata)
       IN  wstatus' = w.status /\ disk' = w.disk /\ gwarned' = w.warned
    /\ gpc' = "written"
    /\ UNCHANGED <<topotype, ingrid, nodatain, rstatus, outgrid, nongvars>>

\* (X, Y, Z) = topofile2griddata(inputfile, topotype)
Topofile2Griddata ==
    /\ gpc \in {"start", "written"}
    /\ LET r == topofile2griddata(disk, topotype)
       IN  /\ rstatus' = r.status
           /\ outgrid' = [X |-> r.X, Y |-> r.Y, Z |-> r.Z, nodata |-> 0]
    /\ gpc' = "read"
    /\ UNCHANGED <<topotype, ingrid, nodatain, disk, wstatus, gwarned, nongvars>>

GridNext == Griddata2Topofile \/ Topofile2Griddata

SpecGrid == GridInit /\ [][GridNext]_vars


-----------------------------------------------------------------------------
(* Claims about topofile2griddata and griddata2topofile                    *)

\* The file `r`/`h` were read from holds grid g as griddata2topofile is to
\* write it: the header of lines 613-619 and the same Z at every (row, column).
ReadsBackAs(r, h, g) ==
    /\ r.status = "ok"
    /\ h.status = "returned"
    /\ r.Z = g.Z
    /\ \A k \in Range(keylist) : h.hdr[k].val = GridHeader(g.X, g.Y, g.Z, g.nodata)[k]

\* C1: raster round trip.  Once griddata2topofile has written a grid of at
\* least 2 x 2 cells with topotype 2 or 3, reading the file back gives the
\* header that was written and the same Z.
C1_RoundTrip ==
    (gpc = "written" /\ topotype \in {2, 3} /\ ingrid \in Grids /\ nodatain = ingrid.nodata) =>
        /\ wstatus = "ok"
        /\ ReadsBackAs(topofile2griddata(disk, topotype), topoheaderread(disk.lines), ingrid)

\* Z holds the first nrows*ncols values of toks in row-major order.
IsRowMajor(Z, hdr, toks) ==
    /\ Len(toks) >= hdr["nrows"].val * hdr["ncols"].val
    /\ Z = [r \in 1 .. hdr["nrows"].val |-> [c \in 1 .. hdr["ncols"].val |->
              Float(convertd2e(toks[(r - 1) * hdr["ncols"].val + c]))]]

DataTokens(h, lines) == Flatten(SubSeq(lines, h.fpos + 1, Len(lines)))

\* C6: for topotype 2 and 3, topofile2griddata fills Z in row-major order from
\* the first nrows*ncols tokens after the header, however the tokens are spread
\* over the lines.
C6_TokensFillRowMajor ==
    (gpc = "read" /\ topotype \in {2, 3} /\ disk.exists) =>
        /\ rstatus = "ok"
        /\ IsRowMajor(outgrid.Z, topoheaderread(disk.lines).hdr,
                      DataTokens(topoheaderread(disk.lines), disk.lines))

\* The number of points of a type-1 file before the first point whose x is
\* smaller than the x of the point before it.
RowLength(lines) ==
    CHOOSE k \in 1 .. Len(lines) - 1 :
        /\ Float(lines[k + 1][1]) < Float(lines[k][1])
        /\ \A i \in 1 .. k - 1 : Float(lines[i + 1][1]) >= Float(lines[i][1])

\* The array of the given shape filled in file order from one field of the
\* lines.
InFileOrder(A, lines, nrows, ncols, field) ==
    A = [r \in 1 .. nrows |-> [c \in 1 .. ncols |-> Float(lines[(r - 1) * ncols + c][field])]]

\* C24: topofile2griddata with topotype 1 on a file of at least two rows
\* returns X, Y, Z of shape (nrows, ncols) filled in file order, ncols being
\* the number of points before the first decrease of x and nrows the number
\* of points divided by ncols.
C24_Type1ReadsRows ==
    (gpc = "read" /\ topotype = 1 /\ disk \in XYZFiles) =>
        /\ rstatus = "ok"
        /\ InFileOrder(outgrid.X, disk.lines, Len(disk.lines) \div RowLength(disk.lines),
                       RowLength(disk.lines), 1)
        /\ InFileOrder(outgrid.Y, disk.lines, Len(disk.lines) \div RowLength(disk.lines),
                       RowLength(disk.lines), 2)
        /\ InFileOrder(outgrid.Z, disk.lines, Len(disk.lines) \div RowLength(disk.lines),
                       RowLength(disk.lines), 3)

\* C15: griddata2topofile given a Y whose row 0 lies south of its last row
\* fails with a format error and writes no topo file.
C15_SouthFirstIsFormatError ==
    (gpc = "written" /\ ingrid.Y[1][1] < ingrid.Y[Len(ingrid.Y)][1]) =>
        /\ wstatus = "FormatError"
        /\ disk = NoFile

\* Z with every cell equal to nodata_value_in replaced by nodata_value_out.
Remapped(Z, nodata_in, nodata_out) ==
    [r \in 1 .. Len(Z) |-> [c \in 1 .. Len(Z[1]) |->
        IF Z[r][c] = nodata_in THEN nodata_out ELSE Z[r][c]]]

\* C17: griddata2topofile with nodata_value_in # nodata_value_out writes
\* nodata_value_out for every cell equal to nodata_value_in, every other cell
\* unchanged, and nodata_value_out in the header.
C17_NodataRemapped ==
    (gpc = "written" /\ topotype \in {2, 3} /\ ingrid \in Grids /\ nodatain # ingrid.nodata) =>
        /\ wstatus = "ok"
        /\ topofile2griddata(disk, topotype).status = "ok"
        /\ topofile2griddata(disk, topotype).Z = Remapped(ingrid.Z, nodatain, ingrid.nodata)
        /\ topoheaderread(disk.lines).hdr["nodata_value"].val = ingrid.nodata

\* The spacing of the columns and of the rows of a grid.
SpacingX(g) == g.X[1][2] - g.X[1][1]

SpacingY(g) == g.Y[1][1] - g.Y[2][1]

\* C22: griddata2topofile with topotype 2 or 3 prints the cellsize warning
\* exactly when the x-spacing and the y-spacing of the grid differ, and
\* after the warning still writes the file, with the x-spacing as cellsize.
C22_WarnsOnUnequalSpacing ==
    (gpc = "written" /\ topotype \in {2, 3} /\ ingrid \in Grids \cup StretchedGrids) =>
        /\ gwarned <=> SpacingX(ingrid) # SpacingY(ingrid)
        /\ gwarned =>
              /\ wstatus = "ok"
              /\ disk.exists
              /\ topoheaderread(disk.lines).hdr["cellsize"].val = SpacingX(ingrid)

-----------------------------------------------------------------------------
(* topofilesubset: the materialising call and the streaming (cheap) call    *)

\* int(a/b + 1) of lines 997-998, for b > 0: truncation towards zero.
TruncPlus1(a, b) == IF a + b >= 0 THEN (a + b) \div b ELSE -((-(a + b)) \div b)

\* np.ceil(a/b + 1) of lines 999 and 1001, for b > 0.
CeilPlus1(a, b) == -((-(a + b)) \div b)

Min(a, b) == IF a <= b THEN a ELSE b

Max(a, b) == IF a >= b THEN a ELSE b

\* "%s" of a Python number: an int as its digits, a float of integral value
\* with ".0".
Str(kind, val) == IF kind = "int" THEN ToString(val) ELSE ToString(val) \o ".0"

\* topoheaderwrite (lines 399-404): value first, key second; xll, yll and
\* cellsize go through float().
topoheaderwrite(th) ==
    << <<Str(th["ncols"].kind, th["ncols"].val), "ncols">>,
       <<Str(th["nrows"].kind, th["nrows"].val), "nrows">>,
       <<Str("float", th["xll"].val), "xll">>,
       <<Str("float", th["yll"].val), "yll">>,
       <<Str("float", th["cellsize"].val), "cellsize">>,
       <<Str(th["nodata_value"].kind, th["nodata_value"].val), "nodata_value">> >>

\* Lines 983-1009: theadout from topoheaderin and the box.
CheapHeader(th, b) ==
    LET cellsize == th["cellsize"].val
        xupperout == Min(th["xll"].val + cellsize * (th["ncols"].val - 1), b.xhi)
        xlowout == Max(b.xlow, th["xll"].val)
        yupperout == Min(th["yll"].val + cellsize * (th["nrows"].val - 1), b.yhi)
        ylowout == Max(th["yll"].val, b.ylow)
    IN  [ncols |-> [kind |-> "int", val |-> TruncPlus1(xupperout - xlowout, cellsize)],
         nrows |-> [kind |-> "int", val |-> TruncPlus1(yupperout - ylowout, cellsize)],
         xll |-> [kind |-> "float",
                  val |-> th["xll"].val
                          + (CeilPlus1(xlowout - th["xll"].val, cellsize) - 1) * cellsize],
         yll |-> [kind |-> "float",
                  val |-> th["yll"].val
                          + (CeilPlus1(ylowout - th["yll"].val, cellsize) - 1) * cellsize],
         cellsize |-> th["cellsize"],
         nodata_value |-> th["nodata_value"]]

\* Line 1024 for the cell (r, c) of the loops of lines 1017 and 1019.
InBox(th, b, r, c) ==
    LET y == th["yll"].val + th["cellsize"].val * (th["nrows"].val - 1)
             - r * th["cellsize"].val
        x == th["xll"].val + c * th["cellsize"].val
    IN  (b.xlow <= x /\ x <= b.xhi) /\ (b.ylow <= y /\ y < b.yhi)

\* The elements of a set of numbers in increasing order (np.where(...)[0]).
RECURSIVE Ascending(_)
Ascending(S) ==
    IF S = {} THEN <<>>
    ELSE LET m == CHOOSE a \in S : \A e \in S : a <= e
         IN  <<m>> \o Ascending(S \ {m})

\* A[np.ix_(yind, xind)]
Ix(A, yind, xind) == [i \in 1 .. Len(yind) |-> [j \in 1 .. Len(xind) |-> A[yind[i]][xind[j]]]]

ColumnsIn(X, b) == Ascending({c \in 1 .. Len(X[1]) : X[1][c] >= b.xlow /\ X[1][c] <= b.xhi})

\* RowsIn with the northern bound exclusive.
RowsIn_ExclusiveTop(Y, b) == Ascending({r \in 1 .. Len(Y) : Y[r][1] < b.yhi /\ Y[r][1] >= b.ylow})

RowsIn(Y, b) == Ascending({r \in 1 .. Len(Y) : Y[r][1] <= b.yhi /\ Y[r][1] >= b.ylow})

\* griddatasubset (lines 761-767): bounds are inclusive on all four sides.
griddatasubset(X, Y, Z, b) ==
    [X |-> Ix(X, RowsIn(Y, b), ColumnsIn(X, b)),
     Y |-> Ix(Y, RowsIn(Y, b), ColumnsIn(X, b)),
     Z |-> Ix(Z, RowsIn(Y, b), ColumnsIn(X, b))]

\* topotypeout of both calls.
topotypeout == 2

\* Lines 959-971 once the grid g and the header h were read.
FullSubsetOf(g, h, outputfile, b) ==
    IF g.status # "ok" THEN [status |-> g.status, disk |-> outputfile]
    ELSE IF h.status # "returned" THEN [status |-> h.status, disk |-> outputfile]
    ELSE griddata2topofile(griddatasubset(g.X, g.Y, g.Z, b).X,
                           griddatasubset(g.X, g.Y, g.Z, b).Y,
                           griddatasubset(g.X, g.Y, g.Z, b).Z,
                           outputfile, topotypeout,
                           h.hdr["nodata_value"].val, h.hdr["nodata_value"].val)

\* Source files: type 1 holds one line "x y z" per node and no header, type 2
\* holds one value per line, type 3 one row per line.
SubsetFile(nr, nc, tt) ==
    [exists |-> TRUE,
     lines |-> IF tt = 1
               THEN [k \in 1 .. nr * nc |->
                       <<IntTok[((k - 1) % nc) + 1], IntTok[nr - ((k - 1) \div nc)], DataTok(k)>>]
               ELSE GridFileHeader(nr, nc) \o
                    CutLines(nr * nc,
                             IF tt = 2 THEN 1 .. nr * nc ELSE {k * nc : k \in 1 .. nr},
                             1, <<>>)]

\* Box boundaries below, on, between and above the cell coordinates 0, 2, 4.
XLows == {-1000000, 1, 2}

XHighs == {2, 3, 1000000}

YLows == {-1000000, 2}

YHighs == {1, 2, 1000000}

Boxes ==
    {b \in [xlow : XLows, xhi : XHighs, ylow : YLows, yhi : YHighs] :
        b.xlow <= b.xhi /\ b.ylow <= b.yhi}

SubsetInit ==
    /\ HeaderIdle
    /\ GridIdle
    /\ AmrIdle
    /\ ToolsIdle
    /\ topotypein \in {1, 2, 3}
    /\ \E nr \in 1 .. MaxRows, nc \in 1 .. MaxCols : srcfile = SubsetFile(nr, nc, topotypein)
    /\ box \in Boxes
    /\ cpc = "start"
    /\ theadin = NoHeader
    /\ theadout = NoHeader
    /\ row = 0
    /\ col = 0
    /\ rpos = 0
    /\ outpts = 0
    /\ writtenpts = 0
    /\ cheapout = NoFile
    /\ fullpc = "start"
    /\ fullstatus = "none"
    /\ fullout = NoFile

\* cheap=True.  Lines 974-979: with topotypein = 1 the call prints four lines
\* and returns.  Lines 981-1016 otherwise: read the header, write the output
\* header, and enter the while loop if there are points to write.
CheapStart ==
    /\ cpc = "start"
    /\ LET h == topoheaderread(srcfile.lines)
       IN  IF topotypein = 1
           THEN /\ cpc' = "returned"
                /\ UNCHANGED <<theadin, theadout, rpos, outpts, cheapout>>
           ELSE IF h.status # "returned"
           THEN /\ cpc' = h.status
                /\ UNCHANGED <<theadin, theadout, rpos, outpts, cheapout>>
           ELSE /\ theadin' = h.hdr
                /\ theadout' = CheapHeader(h.hdr, box)
                /\ rpos' = h.fpos
                /\ outpts' = theadout'["ncols"].val * theadout'["nrows"].val
                /\ cheapout' = [exists |-> TRUE, lines |-> topoheaderwrite(theadout')]
                /\ cpc' = IF outpts' > 0 THEN "loop" ELSE "done"
    /\ row' = 0
    /\ col' = 0
    /\ writtenpts' = 0
    /\ UNCHANGED <<srcfile, topotypein, box, fullpc, fullstatus, fullout, nonsvars>>

\* One iteration of the loop of line 1019 (lines 1020-1029), then the loop
\* controls: next column, next row, and after the last cell of a pass the
\* test of line 1016 again.
CheapCell ==
    /\ cpc = "loop"
    /\ LET zdata == IF rpos < Len(srcfile.lines) THEN srcfile.lines[rpos + 1] ELSE <<>>
           n == IF InBox(theadin, box, row, col) THEN Len(zdata) ELSE 0
       IN  /\ rpos' = IF rpos < Len(srcfile.lines) THEN rpos + 1 ELSE rpos
           /\ outpts' = outpts - n
           /\ writtenpts' = writtenpts + n
           /\ cheapout' = IF n > 0
                          THEN [cheapout EXCEPT !.lines = Append(@, zdata)]
                          ELSE cheapout
    /\ IF col + 1 < theadin["ncols"].val
       THEN col' = col + 1 /\ row' = row /\ cpc' = "loop"
       ELSE IF row + 1 < theadin["nrows"].val
       THEN col' = 0 /\ row' = row + 1 /\ cpc' = "loop"
       ELSE col' = 0 /\ row' = 0 /\ cpc' = IF outpts' > 0 THEN "loop" ELSE "done"
    /\ UNCHANGED <<srcfile, topotypein, box, theadin, theadout,
                   fullpc, fullstatus, fullout, nonsvars>>

\* cheap=False, lines 959-971.
FullSubset ==
    /\ fullpc = "start"
    /\ LET w == FullSubsetOf(topofile2griddata(srcfile, topotypein),
                             topoheaderread(srcfile.lines), fullout, box)
       IN  fullstatus' = w.status /\ fullout' = w.disk
    /\ fullpc' = "done"
    /\ UNCHANGED <<srcfile, topotypein, box, cpc, theadin, theadout, row, col, rpos,
                   outpts, writtenpts, cheapout, nonsvars>>

SubsetNext == CheapStart \/ CheapCell \/ FullSubset

SpecSubset == SubsetInit /\ [][SubsetNext]_vars

\* The loop of the cheap call runs on: its next iteration is eventually taken.
SpecSubsetFair == SpecSubset /\ WF_vars(CheapCell)

-----------------------------------------------------------------------------
(* Claims about topofilesubset                                             *)

\* The box meets the extent of the grid of header th.
Overlaps(th, b) ==
    /\ b.xlow <= th["xll"].val + th["cellsize"].val * (th["ncols"].val - 1)
    /\ b.xhi >= th["xll"].val
    /\ b.ylow <= th["yll"].val + th["cellsize"].val * (th["nrows"].val - 1)
    /\ b.yhi >= th["yll"].val

\* C7: for a type-2 or type-3 input and a box that overlaps the grid, the
\* cheap=True call and the cheap=False call leave the same output file: the
\* same header fields and the same sequence of z values.
C7_CheapAgreesWithFull ==
    (cpc = "done" /\ fullpc = "done" /\ Overlaps(theadin, box)) =>
        /\ fullstatus = "ok"
        /\ fullout.exists
        /\ topoheaderread(fullout.lines).hdr = topoheaderread(cheapout.lines).hdr
        /\ DataTokens(topoheaderread(fullout.lines), fullout.lines)
             = DataTokens(topoheaderread(cheapout.lines), cheapout.lines)

\* C8: the cheap=True call reads forward only, never past the lines of the
\* source, and its loop over the source comes to an end for every input file
\* and every box.
C8_CheapTerminates ==
    /\ [](rpos <= Len(srcfile.lines))
    /\ (cpc = "loop") ~> (cpc = "done")

\* C27: when the cheap=True call finishes on a box that overlaps the source
\* grid, the number of z values written equals ncols*nrows of the header it
\* wrote.
C27_CheapCountMatchesHeader ==
    (cpc = "done" /\ Overlaps(theadin, box)) =>
        writtenpts = theadout["ncols"].val * theadout["nrows"].val

\* The cheap=True call has ended, by a return or by an exception.
CheapEnded == cpc \notin {"start", "loop"}

\* C20: topofilesubset with cheap=True and topotypein = 1 fails: the call ends
\* with an exception, not with a return, and the output file is neither
\* created nor overwritten.
C20_CheapType1Fails ==
    (topotypein = 1 /\ CheapEnded) =>
        /\ cpc \notin {"returned", "done"}
        /\ cheapout = NoFile

-----------------------------------------------------------------------------
(* ascii.py: numbers and the text of a frame file                          *)

Abs(n) == IF n < 0 THEN -n ELSE n

RECURSIVE Pow10(_)
Pow10(k) == IF k <= 0 THEN 1 ELSE 10 * Pow10(k - 1)

\* The number of decimal digits of n >= 0.
RECURSIVE NDigits(_)
NDigits(n) == IF n < 10 THEN 1 ELSE 1 + NDigits(n \div 10)

\* A float is m * 10^e with m free of trailing zeros.
RECURSIVE Canon(_, _)
Canon(m, e) ==
    IF m = 0 THEN [m |-> 0, e |-> 0]
    ELSE IF m % 10 = 0 THEN Canon(m \div 10, e + 1)
    ELSE [m |-> m, e |-> e]

Num(i) == Canon(i, 0)

AddNum(a, b) ==
    Canon(a.m * Pow10(a.e - Min(a.e, b.e)) + b.m * Pow10(b.e - Min(a.e, b.e)),
          Min(a.e, b.e))

\* abs(a - b) < 1.0e-4 (lines 364 and 369).
Within1e4(a, b) ==
    Abs(a.m * Pow10(a.e - Min(Min(a.e, b.e), -4))
        - b.m * Pow10(b.e - Min(Min(a.e, b.e), -4)))
      < Pow10(-4 - Min(Min(a.e, b.e), -4))

\* "%.8e" of a number with k digits a: nine significant digits d (the tenth
\* rounded off) and the exponent sci of the first one.
SciParts(neg, a, k, e) ==
    IF k <= 9 THEN [neg |-> neg, d |-> a * Pow10(9 - k), sci |-> e + k - 1]
    ELSE IF (a + 5) \div 10 >= Pow10(9)
    THEN [neg |-> neg, d |-> Pow10(8), sci |-> e + k]
    ELSE [neg |-> neg, d |-> (a + 5) \div 10, sci |-> e + k - 1]

Sci(v) ==
    IF v.m = 0 THEN [neg |-> FALSE, d |-> 0, sci |-> 0]
    ELSE SciParts(v.m < 0, Abs(v.m), NDigits(Abs(v.m)), v.e)

\* Characters of "%.8e": sign, "d.dddddddd", "e", sign, at least two digits.
EWidth(sc) == (IF sc.neg THEN 1 ELSE 0) + 12 + Max(2, NDigits(Abs(sc.sci)))

\* One conversion of a format string as it stands in a line.  sep: blanks
\* stand before it (the value is narrower than the field width w).
EFieldOf(sc, w) ==
    [sep |-> EWidth(sc) < w, kind |-> "e", neg |-> sc.neg, d |-> sc.d, sci |-> sc.sci, s |-> ""]

\* "%16.8e" (w = 16) and "%18.8e" (w = 18)
EField(v, w) == EFieldOf(Sci(v), w)

\* "%5i"
IField(n) ==
    [sep |-> NDigits(Abs(n)) + (IF n < 0 THEN 1 ELSE 0) < 5, kind |-> "i",
     neg |-> n < 0, d |-> Abs(n), sci |-> 0, s |-> ""]

\* The name that follows the value after blanks.
Label(s) == [sep |-> TRUE, kind |-> "s", neg |-> FALSE, d |-> 0, sci |-> 0, s |-> s]

\* str.split(): fields with no blank between them are one token.
RECURSIVE SplitFields(_, _)
SplitFields(line, acc) ==
    IF line = <<>> THEN acc
    ELSE IF acc = <<>> \/ Head(line).sep
    THEN SplitFields(Tail(line), Append(acc, <<Head(line)>>))
    ELSE SplitFields(Tail(line), [acc EXCEPT ![Len(acc)] = Append(@, Head(line))])

split(line) == SplitFields(line, <<>>)

\* float(tok) succeeds on one number, int(tok) on one integer.
IsFloatTok(tok) == Len(tok) = 1 /\ tok[1].kind \in {"e", "i"}

IsIntTok(tok) == Len(tok) = 1 /\ tok[1].kind = "i"

FloatOf(tok) ==
    IF tok[1].kind = "e"
    THEN Canon(IF tok[1].neg THEN -tok[1].d ELSE tok[1].d, tok[1].sci - 8)
    ELSE Num(IF tok[1].neg THEN -tok[1].d ELSE tok[1].d)

IntOf(tok) == IF tok[1].neg THEN -tok[1].d ELSE tok[1].d

\* What a value reads back as after "%16.8e" / "%18.8e".
Round9(v) == FloatOf(<<EField(v, 16)>>)

NoValue == [status |-> "ok", int |-> 0, num |-> Num(0), pos |-> 0]

DataValue(tok, type, pos) ==
    IF type = "int"
    THEN IF IsIntTok(tok) THEN [NoValue EXCEPT !.int = IntOf(tok), !.pos = pos]
         ELSE [NoValue EXCEPT !.status = "invalid", !.pos = pos]
    ELSE IF IsFloatTok(tok) THEN [NoValue EXCEPT !.num = FloatOf(tok), !.pos = pos]
         ELSE [NoValue EXCEPT !.status = "invalid", !.pos = pos]

\* pyclaw.util.read_data_line(f, type): the first token of the next line
\* that is not blank, converted to `type`.  At end of file no such line comes.
RECURSIVE read_data_line(_, _, _)
read_data_line(lines, pos, type) ==
    IF pos >= Len(lines) THEN [NoValue EXCEPT !.status = "hang", !.pos = pos]
    ELSE IF lines[pos + 1] = <<>> THEN read_data_line(lines, pos + 1, type)
    ELSE DataValue(split(lines[pos + 1])[1], type, pos + 1)

\* Successive read_data_line calls, one per entry of types, up to the first
\* that fails.
RECURSIVE ReadValues(_, _, _, _)
RECURSIVE ReadValuesNext(_, _, _, _)
ReadValues(lines, pos, types, acc) ==
    IF types = <<>> THEN [status |-> "ok", vals |-> acc, pos |-> pos]
    ELSE ReadValuesNext(lines, read_data_line(lines, pos, Head(types)), Tail(types), acc)

ReadValuesNext(lines, r, types, acc) ==
    IF r.status # "ok" THEN [status |-> r.status, vals |-> acc, pos |-> r.pos]
    ELSE ReadValues(lines, r.pos, types, Append(acc, r))

\* f.readline() for a line that is thrown away: at end of file it returns "".
SkipLine(lines, pos) == IF pos < Len(lines) THEN pos + 1 ELSE pos

\* The token accumulator (lines 273-276): lines are read and split until the
\* list holds `need` tokens.
RECURSIVE Accumulate(_, _, _, _)
Accumulate(lines, pos, l, need) ==
    IF Len(l) >= need THEN [status |-> "ok", l |-> l, pos |-> pos]
    ELSE IF pos >= Len(lines) THEN [status |-> "hang", l |-> l, pos |-> pos]
    ELSE Accumulate(lines, pos + 1, l \o split(lines[pos + 1]), need)

-----------------------------------------------------------------------------
(* ascii.py: patches and write_ascii                                       *)

\* A patch (pyclaw.solution.Grid) is a record of gridno, level, t, meqn,
\* maux, and per dimension n, lower and d; q and aux map a cell index
\* <<i>>, <<i, j>> or <<i, j, k>> (from 0) to the components of the cell.
\* A solution is the sequence of its patches; its t, meqn, maux and ndim are
\* those of the first patch (lines 34-39).

names == <<"x", "y", "z">>

NCells(n) ==
    IF Len(n) = 1 THEN n[1] ELSE IF Len(n) = 2 THEN n[1] * n[2] ELSE n[1] * n[2] * n[3]

\* The p-th cell of the loops over a patch: the first index is the innermost.
Idx(n, p) ==
    IF Len(n) = 1 THEN <<p - 1>>
    ELSE IF Len(n) = 2 THEN <<(p - 1) % n[1], (p - 1) \div n[1]>>
    ELSE <<(p - 1) % n[1], ((p - 1) \div n[1]) % n[2], (p - 1) \div (n[1] * n[2])>>

IsLast(n, p, i) == Idx(n, p)[i] = n[i] - 1

\* Lines 112, 150, 158-159 (writing) and 288, 392, 404-405 (reading): one
\* line closes each row of the innermost loop, in 3-D one more each slice.
RowBlanks(n, p) ==
    IF Len(n) = 1 \/ ~IsLast(n, p, 1) THEN 0
    ELSE IF Len(n) = 3 /\ IsLast(n, p, 2) THEN 2
    ELSE 1

\* Lines 120-121: the 3-D dump of q closes each slice of the outermost loop
\* and then the whole block.
QBlanks(n, p) ==
    IF Len(n) # 3 THEN RowBlanks(n, p)
    ELSE IF ~(IsLast(n, p, 1) /\ IsLast(n, p, 2)) THEN 0
    ELSE IF IsLast(n, p, 3) THEN 2
    ELSE 1

Blank(k) == [i \in 1 .. k |-> <<>>]

\* Lines 103-105: the components of one cell with "%16.8e", then "\n".
CellLine(vals, ncomp) == [m \in 1 .. ncomp |-> EField(vals[m], 16)]

\* The dump of q (lines 101-121, isq) or aux (lines 139-159) from cell p on.
RECURSIVE DataLines(_, _, _, _, _)
DataLines(a, n, ncomp, isq, p) ==
    IF p > NCells(n) THEN <<>>
    ELSE <<CellLine(a[Idx(n, p)], ncomp)>>
         \o Blank(IF isq THEN QBlanks(n, p) ELSE RowBlanks(n, p))
         \o DataLines(a, n, ncomp, isq, p + 1)

\* Lines 87-96 and 128-138.
SubHeader(grid) ==
    << <<IField(grid.gridno), Label("grid_number")>>,
       <<IField(grid.level), Label("AMR_level")>> >>
    \o [i \in 1 .. Len(grid.n) |-> <<IField(grid.n[i]), Label("m" \o names[i])>>]
    \o [i \in 1 .. Len(grid.n) |-> <<EField(grid.lower[i], 18), Label(names[i] \o "low")>>]
    \o [i \in 1 .. Len(grid.n) |-> <<EField(grid.d[i], 18), Label("d" \o names[i])>>]
    \o << <<>> >>

\* Lines 68-72.
FrameHeader(t, meqn, ngrids, maux, ndim) ==
    << <<EField(t, 18), Label("time")>>, <<IField(meqn), Label("meqn")>>,
       <<IField(ngrids), Label("ngrids")>>, <<IField(maux), Label("maux")>>,
       <<IField(ndim), Label("ndim")>> >>

QBlock(grid, meqn) == SubHeader(grid) \o DataLines(grid.q, grid.n, meqn, TRUE, 1)

AuxBlock(grid) == SubHeader(grid) \o DataLines(grid.aux, grid.n, grid.maux, FALSE, 1)

\* The loop of lines 85-159 from patch i on; qf and af are the lines written
\* to the q file and the aux file so far.
\*   140  range(grid.dimensions[0]): a Dimension is no integer, TypeError
\*   146  grid.dimension: a Grid has no such attribute, AttributeError
\* What was written before the exception reaches the files when they are closed.
RECURSIVE WriteGrids(_, _, _, _, _)
WriteGrids(sol, i, waux, qf, af) ==
    IF i > Len(sol) THEN [status |-> "ok", q |-> qf, a |-> af]
    ELSE IF Len(sol[i].n) \notin {1, 2, 3}
    THEN [status |-> "Exception", q |-> qf \o SubHeader(sol[i]), a |-> af]
    ELSE IF ~(sol[i].maux > 0 /\ waux)
    THEN WriteGrids(sol, i + 1, waux, qf \o QBlock(sol[i], sol[1].meqn), af)
    ELSE IF Len(sol[i].n) = 3
    THEN WriteGrids(sol, i + 1, waux, qf \o QBlock(sol[i], sol[1].meqn),
                    af \o AuxBlock(sol[i]))
    ELSE [status |-> IF Len(sol[i].n) = 1 THEN "TypeError" ELSE "AttributeError",
          q |-> qf \o QBlock(sol[i], sol[1].meqn), a |-> af \o SubHeader(sol[i])]

\* str(frame).zfill(4)
RECURSIVE ZPad(_, _)
ZPad(str, k) == IF k <= 0 THEN str ELSE ZPad("0" \o str, k - 1)

zfill4(n) ==
    IF n < 0 THEN "-" \o ZPad(ToString(-n), 3 - NDigits(-n))
    ELSE ZPad(ToString(n), 4 - NDigits(n))

\* open(name, "w"), the writes, close()
Put(dir, name, lines) == (name :> lines) @@ dir

WriteFiles(sol, fr, prefix, waux, dir, w) ==
    [status |-> w.status,
     path |-> IF sol[1].maux > 0 /\ waux
              THEN Put(Put(Put(dir, prefix \o ".t" \o zfill4(fr),
                               FrameHeader(sol[1].t, sol[1].meqn, Len(sol),
                                           sol[1].maux, Len(sol[1].n))),
                           "fort.q" \o zfill4(fr), w.q),
                       "fort.a" \o zfill4(fr), w.a)
              ELSE Put(Put(dir, prefix \o ".t" \o zfill4(fr),
                           FrameHeader(sol[1].t, sol[1].meqn, Len(sol),
                                       sol[1].maux, Len(sol[1].n))),
                       "fort.q" \o zfill4(fr), w.q)]

\* write_ascii (lines 62-163): the t file under file_prefix (line 64), the q
\* and aux files under "fort" (lines 76 and 81).  The t, meqn, maux and ndim
\* of a solution are those of its first patch: for a solution without patches
\* the t file is opened (line 65) and solution.t of line 68 raises IndexError.
\* (Were the four values defined, the loop of line 85 would leave `grid`
\* unbound and line 162 would raise UnboundLocalError.)
write_ascii(sol, fr, prefix, waux, dir) ==
    IF sol = <<>>
    THEN [status |-> "IndexError", path |-> Put(dir, prefix \o ".t" \o zfill4(fr), <<>>)]
    ELSE WriteFiles(sol, fr, prefix, waux, dir, WriteGrids(sol, 1, waux, <<>>, <<>>))

-----------------------------------------------------------------------------
(* ascii.py: read_ascii                                                    *)

NoArray == [c \in {} |-> <<>>]

Cells(n) == {Idx(n, p) : p \in 1 .. NCells(n)}

\* grid.zeros_aux(maux)
ZerosAux(n, maux) == [c \in Cells(n) |-> [m \in 1 .. maux |-> Num(0)]]

\* Lines 249-267 and 308-309: the patch of a sub-header.  Dimension gets
\* lower, upper = lower + n*d and n, and gives d back as (upper - lower)/n.
NewGrid(hdr, gridno, level, n, lower, d) ==
    [gridno |-> gridno, level |-> level, t |-> hdr.t, meqn |-> hdr.meqn,
     maux |-> IF hdr.maux > 0 THEN hdr.maux ELSE 0,
     n |-> n, lower |-> lower, d |-> d, q |-> NoArray,
     aux |-> IF hdr.maux > 0 THEN ZerosAux(n, hdr.maux) ELSE NoArray]

\* Lines 232-242 read as v: gridno, level, then ndim times n, lower, d.
GridOfSubHeader(hdr, v) ==
    NewGrid(hdr, v[1].int, v[2].int,
            [i \in 1 .. hdr.ndim |-> v[2 + i].int],
            [i \in 1 .. hdr.ndim |-> v[2 + hdr.ndim + i].num],
            [i \in 1 .. hdr.ndim |-> v[2 + 2 * hdr.ndim + i].num])

SubHeaderTypes(ndim) ==
    <<"int", "int">> \o [i \in 1 .. ndim |-> "int"] \o [i \in 1 .. 2 * ndim |-> "float"]

\* DataBranch with the raise of line 290 taken out: the loops of lines
\* 291-301 read a 3-D patch.
DataBranch_Reads3d(ndim) ==
    IF ndim \in {1, 2, 3} THEN "read" ELSE "Exception"

\* Lines 271, 279, 289-290, 302-305: what is done for a patch of ndim dimensions.
DataBranch(ndim) ==
    IF ndim \in {1, 2} THEN "read"
    ELSE IF ndim = 3 THEN "NotImplementedError"
    ELSE "Exception"

RECURSIVE SkipLines(_, _, _)
SkipLines(lines, pos, k) ==
    IF k <= 0 THEN pos ELSE SkipLines(lines, SkipLine(lines, pos), k - 1)

\* The loops over the cells of a patch (lines 272-288 for q, 376-405 for
\* aux) from cell p on: ncomp tokens per cell, float() of each, and the
\* lines read and dropped at the end of a row.
RECURSIVE ReadCells(_, _, _, _, _, _)
RECURSIVE ReadCellNext(_, _, _, _, _, _)
ReadCells(lines, pos, n, ncomp, p, acc) ==
    IF p > NCells(n) THEN [status |-> "ok", a |-> acc, pos |-> pos]
    ELSE ReadCellNext(lines, Accumulate(lines, pos, <<>>, ncomp), n, ncomp, p, acc)

ReadCellNext(lines, r, n, ncomp, p, acc) ==
    IF r.status # "ok" THEN [status |-> r.status, a |-> acc, pos |-> r.pos]
    ELSE IF \E m \in 1 .. ncomp : ~IsFloatTok(r.l[m])
    THEN [status |-> "ValueError", a |-> acc, pos |-> r.pos]
    ELSE ReadCells(lines, SkipLines(lines, r.pos, RowBlanks(n, p)), n, ncomp, p + 1,
                   (Idx(n, p) :> [m \in 1 .. ncomp |-> FloatOf(r.l[m])]) @@ acc)

NoInds == [g \in {} |-> 0]

\* The loop of lines 229-315 with `left` patches to go.  sol is
\* solution.grids, inds is grid_no_inds with positions counted from 1.
RECURSIVE ReadGrids(_, _, _, _, _, _)
RECURSIVE ReadGridHeader(_, _, _, _, _, _)
RECURSIVE ReadGridData(_, _, _, _, _, _, _)
ReadGrids(lines, pos, left, hdr, sol, inds) ==
    IF left <= 0 THEN [status |-> "ok", sol |-> sol, inds |-> inds]
    ELSE ReadGridHeader(lines, ReadValues(lines, pos, SubHeaderTypes(hdr.ndim), <<>>),
                        left, hdr, sol, inds)

ReadGridHeader(lines, h, left, hdr, sol, inds) ==
    IF h.status # "ok" THEN [status |-> h.status, sol |-> sol, inds |-> inds]
    ELSE IF DataBranch(hdr.ndim) # "read"
    THEN [status |-> DataBranch(hdr.ndim), sol |-> sol, inds |-> inds]
    ELSE ReadGridData(lines,
                      ReadCells(lines, SkipLine(lines, h.pos),
                                [i \in 1 .. hdr.ndim |-> h.vals[2 + i].int],
                                hdr.meqn, 1, NoArray),
                      h.vals, left, hdr, sol, inds)

ReadGridData(lines, c, v, left, hdr, sol, inds) ==
    IF c.status # "ok" THEN [status |-> c.status, sol |-> sol, inds |-> inds]
    ELSE ReadGrids(lines, c.pos, left - 1, hdr,
                   Append(sol, [GridOfSubHeader(hdr, v) EXCEPT !.q = c.a]),
                   (v[1].int :> Len(sol) + 1) @@ inds)

\* AuxTarget taking the n-th patch of the solution for the n-th patch of the
\* aux file.
AuxTarget_ByPosition(inds, gridno, k) == k

\* Line 346: the patch an aux sub-header belongs to.
AuxTarget(inds, gridno, k) == inds[gridno]

\* Lines 354-371: the values the sub-header must hold, in the order read.
AuxExpect(grid) ==
    <<[type |-> "int", int |-> grid.level, num |-> Num(0)]>>
    \o [i \in 1 .. Len(grid.n) |-> [type |-> "int", int |-> grid.n[i], num |-> Num(0)]]
    \o [i \in 1 .. Len(grid.n) |-> [type |-> "float", int |-> 0, num |-> grid.lower[i]]]
    \o [i \in 1 .. Len(grid.n) |-> [type |-> "float", int |-> 0, num |-> grid.d[i]]]

AuxMatches(e, r) ==
    IF e.type = "int" THEN e.int = r.int ELSE Within1e4(e.num, r.num)

\* Each value is read and compared before the next is read; every exception
\* leaves as IOError through line 413.
RECURSIVE AuxChecks(_, _, _)
RECURSIVE AuxCheckNext(_, _, _)
AuxChecks(lines, pos, expect) ==
    IF expect = <<>> THEN [status |-> "ok", pos |-> pos]
    ELSE AuxCheckNext(lines, read_data_line(lines, pos, Head(expect).type), expect)

AuxCheckNext(lines, r, expect) ==
    IF r.status = "hang" THEN [status |-> "hang", pos |-> r.pos]
    ELSE IF r.status # "ok" \/ ~AuxMatches(Head(expect), r)
    THEN [status |-> "IOError", pos |-> r.pos]
    ELSE AuxChecks(lines, r.pos, Tail(expect))

\* The loop of lines 343-408 with `left` patches to go.
RECURSIVE AuxLoop(_, _, _, _, _)
RECURSIVE AuxGrid(_, _, _, _, _)
RECURSIVE AuxChecked(_, _, _, _, _, _)
RECURSIVE AuxStored(_, _, _, _, _, _)
AuxLoop(lines, pos, left, sol, inds) ==
    IF left <= 0 THEN [status |-> "ok", solution |-> sol]
    ELSE AuxGrid(lines, read_data_line(lines, pos, "int"), left, sol, inds)

AuxGrid(lines, g, left, sol, inds) ==
    IF g.status = "hang" THEN [status |-> "hang", solution |-> sol]
    ELSE IF g.status # "ok" \/ g.int \notin DOMAIN inds
    THEN [status |-> "IOError", solution |-> sol]
    ELSE IF sol[AuxTarget(inds, g.int, Len(sol) - left + 1)].gridno # g.int
    THEN [status |-> "IOError", solution |-> sol]
    ELSE AuxChecked(lines,
                    AuxChecks(lines, g.pos,
                              AuxExpect(sol[AuxTarget(inds, g.int, Len(sol) - left + 1)])),
                    AuxTarget(inds, g.int, Len(sol) - left + 1), left, sol, inds)

AuxChecked(lines, c, m, left, sol, inds) ==
    IF c.status # "ok" THEN [status |-> c.status, solution |-> sol]
    ELSE AuxStored(lines,
                   ReadCells(lines, SkipLine(lines, c.pos), sol[m].n, sol[m].maux, 1,
                             sol[m].aux),
                   m, left, sol, inds)

AuxStored(lines, r, m, left, sol, inds) ==
    IF r.status # "ok"
    THEN [status |-> IF r.status = "hang" THEN "hang" ELSE "IOError",
          solution |-> [sol EXCEPT ![m].aux = r.a]]
    ELSE AuxLoop(lines, r.pos, left - 1, [sol EXCEPT ![m].aux = r.a], inds)

\* Lines 325-336: whether an aux file is read, and which.
ReadAux(sol, inds, fr, prefix, raux, dir) ==
    IF sol = <<>> THEN [status |-> "IndexError", solution |-> sol]
    ELSE IF ~(sol[1].maux > 0 /\ raux) THEN [status |-> "ok", solution |-> sol]
    ELSE IF (prefix \o ".a" \o zfill4(fr)) \in DOMAIN dir
    THEN AuxLoop(dir[prefix \o ".a" \o zfill4(fr)], 0, Len(sol), sol, inds)
    ELSE IF (prefix \o ".a") \in DOMAIN dir
    THEN AuxLoop(dir[prefix \o ".a"], 0, Len(sol), sol, inds)
    ELSE [status |-> "ok", solution |-> sol]

\* read_ascii_t (lines 438-456)
read_ascii_t(dir, fr, prefix) ==
    IF (prefix \o ".t" \o zfill4(fr)) \notin DOMAIN dir
    THEN [status |-> "IOError", vals |-> <<>>, pos |-> 0]
    ELSE ReadValues(dir[prefix \o ".t" \o zfill4(fr)], 0,
                    <<"float", "int", "int", "int", "int">>, <<>>)

FrameOf(v) ==
    [t |-> v[1].num, meqn |-> v[2].int, ngrids |-> v[3].int, maux |-> v[4].int,
     ndim |-> v[5].int]

ReadAuxOf(g, fr, prefix, raux, dir) ==
    IF g.status # "ok" THEN [status |-> g.status, solution |-> g.sol]
    ELSE ReadAux(g.sol, g.inds, fr, prefix, raux, dir)

ReadFrame(sol, fr, prefix, raux, dir, th) ==
    IF th.status # "ok" THEN [status |-> th.status, solution |-> sol]
    ELSE IF (prefix \o ".q" \o zfill4(fr)) \notin DOMAIN dir
    THEN [status |-> "IOError", solution |-> sol]
    ELSE ReadAuxOf(ReadGrids(dir[prefix \o ".q" \o zfill4(fr)], 0, FrameOf(th.vals).ngrids,
                             FrameOf(th.vals), sol, NoInds),
                   fr, prefix, raux, dir)

\* read_ascii (lines 207-413) into the solution sol.
read_ascii(sol, fr, prefix, raux, dir) ==
    IF fr < 0 THEN [status |-> "IOError", solution |-> sol]
    ELSE ReadFrame(sol, fr, prefix, raux, dir, read_ascii_t(dir, fr, prefix))

-----------------------------------------------------------------------------
(* Solutions and frames given to write_ascii and read_ascii                *)

\* A solution has up to MaxGrids patches of up to MaxN cells a side and up
\* to MaxEqn components.
MaxGrids == 2

MaxN == 2

MaxEqn == 2

CellNumber(n, c) ==
    c[1] + (IF Len(n) > 1 THEN n[1] * c[2] ELSE 0)
         + (IF Len(n) > 2 THEN n[1] * n[2] * c[3] ELSE 0)

\* q of cell c, component m of patch g: 1 + i + 2*j + ... ("ramp"), with one
\* value of ten significant digits ("long") or one small negative value of
\* three exponent digits ("tiny").
QValue(pattern, n, c, m, meqn, g) ==
    IF pattern = "long" /\ CellNumber(n, c) = 0 /\ m = 1 THEN Canon(1234567891, -9)
    ELSE IF pattern = "tiny" /\ CellNumber(n, c) = 0 /\ m = meqn THEN Canon(-1, -100)
    ELSE Num(1 + CellNumber(n, c) + 8 * (m - 1) + 16 * (g - 1))

Shape(ndim, a, b) ==
    IF ndim = 1 THEN <<a>> ELSE IF ndim = 2 THEN <<a, b>> ELSE <<a, b, 1>>

Patch(n, meqn, maux, pattern, g) ==
    [gridno |-> g, level |-> g, t |-> Canon(15, -1), meqn |-> meqn, maux |-> maux,
     n |-> n,
     lower |-> [i \in 1 .. Len(n) |-> Num(5 * (g - 1))],
     d |-> [i \in 1 .. Len(n) |-> Canon(5, -1)],
     q |-> [c \in Cells(n) |-> [m \in 1 .. meqn |-> QValue(pattern, n, c, m, meqn, g)]],
     aux |-> IF maux = 0 THEN NoArray
             ELSE [c \in Cells(n) |-> [m \in 1 .. maux |-> Num(100 * g + CellNumber(n, c))]]]

\* Patches numbered in rising or falling order.
SolutionOf(ndim, meqn, maux, ng, rising, a, b, pattern) ==
    [p \in 1 .. ng |-> Patch(Shape(ndim, a, b), meqn, maux, pattern,
                             IF rising THEN p ELSE ng + 1 - p)]

Solutions ==
    {SolutionOf(t[1], t[2], t[3], t[4], t[5], t[6], t[7], t[8]) :
        t \in (1 .. 3) \X (1 .. MaxEqn) \X {0, 1} \X (1 .. MaxGrids) \X BOOLEAN
              \X (1 .. MaxN) \X (1 .. MaxN) \X {"ramp", "long", "tiny"}}

RampSolutions ==
    {SolutionOf(t[1], t[2], 1, t[3], t[4], t[5], t[6], "ramp") :
        t \in (1 .. 2) \X (1 .. MaxEqn) \X (1 .. MaxGrids) \X BOOLEAN
              \X (1 .. MaxN) \X (1 .. MaxN)}

\* An aux file of another program for the patches of a solution: the patches
\* in the solution's order or reversed, one sub-header value of patch k
\* changed.  The changes of lower and d are 5e-5 and 2e-4.
Changes == {"none", "level", "n", "lower5e-5", "lower2e-4", "d5e-5", "d2e-4"}

Changed(grid, ch) ==
    CASE ch = "level" -> [grid EXCEPT !.level = @ + 1]
      [] ch = "n" -> [grid EXCEPT !.n[1] = @ + 1]
      [] ch = "lower5e-5" -> [grid EXCEPT !.lower[1] = AddNum(@, Canon(5, -5))]
      [] ch = "lower2e-4" -> [grid EXCEPT !.lower[1] = AddNum(@, Canon(2, -4))]
      [] ch = "d5e-5" -> [grid EXCEPT !.d[Len(grid.n)] = AddNum(@, Canon(-5, -5))]
      [] ch = "d2e-4" -> [grid EXCEPT !.d[Len(grid.n)] = AddNum(@, Canon(-2, -4))]
      [] OTHER -> grid

AuxPatches(sol, reversed, k, ch) ==
    [p \in 1 .. Len(sol) |->
        [grid |-> sol[IF reversed THEN Len(sol) + 1 - p ELSE p],
         shown |-> IF p = k
                   THEN Changed(sol[IF reversed THEN Len(sol) + 1 - p ELSE p], ch)
                   ELSE sol[IF reversed THEN Len(sol) + 1 - p ELSE p]]]

\* Per patch the sub-header as shown, then the aux values of the patch.
RECURSIVE AuxLines(_)
AuxLines(patches) ==
    IF patches = <<>> THEN <<>>
    ELSE SubHeader(Head(patches).shown)
         \o DataLines(Head(patches).grid.aux, Head(patches).grid.n,
                      Head(patches).grid.maux, FALSE, 1)
         \o AuxLines(Tail(patches))

\* The calls are made with the default file_prefix and a frame number, with
\* a negative frame number, or with another file_prefix.
CallArgs == {<<0, "fort">>, <<-1, "fort">>, <<3, "claw">>}

\* A patch the solution given to read_ascii may hold beforehand.
OldPatch(maux) == Patch(<<1>>, 1, maux, "ramp", 9)

\* write_ascii of a solution, then read_ascii into an empty solution.
RoundTripInit ==
    /\ solution \in Solutions
    /\ \E ca \in CallArgs : frame = ca[1] /\ file_prefix = ca[2]
    /\ write_aux \in {w \in BOOLEAN : w => solution[1].maux > 0}
    /\ read_aux \in BOOLEAN
    /\ path = NoFiles
    /\ auxgiven = <<>>
    /\ qgiven = "none"
    /\ target = <<>>

\* The same with an aux file of another program in path, under either name.
AuxInit ==
    /\ solution \in RampSolutions
    /\ frame = 0
    /\ file_prefix = "fort"
    /\ write_aux = FALSE
    /\ read_aux = TRUE
    /\ \E reversed \in BOOLEAN, k \in 1 .. Len(solution), ch \in Changes :
          auxgiven = AuxPatches(solution, reversed, k, ch)
    /\ \E name \in {"fort.a0000", "fort.a"} : path = Put(NoFiles, name, AuxLines(auxgiven))
    /\ qgiven = "none"
    /\ target = <<>>

\* A frame of another program without patches, read into an empty solution
\* or into one that holds a patch.
EmptyFrameInit ==
    /\ solution = <<>>
    /\ frame = 0
    /\ file_prefix = "fort"
    /\ write_aux = FALSE
    /\ read_aux \in BOOLEAN
    /\ \E ndim \in 1 .. 3, meqn \in 1 .. MaxEqn, maux \in {0, 1} :
          path = Put(Put(NoFiles, "fort.t0000",
                         FrameHeader(Canon(15, -1), meqn, 0, maux, ndim)),
                     "fort.q0000", <<>>)
    /\ auxgiven = <<>>
    /\ qgiven = "empty"
    /\ target \in {<<>>, <<OldPatch(0)>>, <<OldPatch(1)>>}

\* write_ascii of a solution, then read_ascii into a solution that holds a
\* patch already.
AppendInit ==
    /\ solution \in RampSolutions
    /\ frame = 0
    /\ file_prefix = "fort"
    /\ write_aux = FALSE
    /\ read_aux = FALSE
    /\ path = NoFiles
    /\ auxgiven = <<>>
    /\ qgiven = "none"
    /\ target = <<OldPatch(1)>>

\* Lines of a data block with the cells of a row on one line.
RECURSIVE JoinRows(_, _)
JoinRows(lines, acc) ==
    IF lines = <<>> THEN acc
    ELSE IF Head(lines) # <<>> /\ acc # <<>> /\ acc[Len(acc)] # <<>>
    THEN JoinRows(Tail(lines),
                  [acc EXCEPT ![Len(acc)] =
                      @ \o [Head(lines) EXCEPT ![1] = [@ EXCEPT !.sep = TRUE]]])
    ELSE JoinRows(Tail(lines), Append(acc, Head(lines)))

\* Lines of a data block with every value on a line of its own.
RECURSIVE OnePerLine(_)
OnePerLine(lines) ==
    IF lines = <<>> THEN <<>>
    ELSE (IF Head(lines) = <<>> THEN << <<>> >>
          ELSE [m \in 1 .. Len(Head(lines)) |-> <<Head(lines)[m]>>])
         \o OnePerLine(Tail(lines))

Recut(lines, style) ==
    CASE style = "joined" -> JoinRows(lines, <<>>)
      [] style = "wrapped" -> OnePerLine(lines)
      [] OTHER -> lines

\* Solutions of one patch without aux.
OnePatchSolutions ==
    {SolutionOf(t[1], t[2], 0, 1, TRUE, t[3], t[4], "ramp") :
        t \in (1 .. 2) \X (1 .. MaxEqn) \X (1 .. MaxN) \X (1 .. MaxN)}

\* The frame of a one-patch solution as another program wrote it: the q
\* values in the same order, the line breaks of the data block elsewhere.
RecutInit ==
    /\ solution = <<>>
    /\ frame = 0
    /\ file_prefix = "fort"
    /\ write_aux = FALSE
    /\ read_aux = FALSE
    /\ \E sol \in OnePatchSolutions, style \in {"asis", "joined", "wrapped"} :
          path = Put(Put(NoFiles, "fort.t0000",
                         FrameHeader(sol[1].t, sol[1].meqn, 1, 0, Len(sol[1].n))),
                     "fort.q0000",
                     SubHeader(sol[1])
                     \o Recut(DataLines(sol[1].q, sol[1].n, sol[1].meqn, TRUE, 1), style))
    /\ auxgiven = <<>>
    /\ qgiven = "recut"
    /\ target = <<>>

\* A frame whose q file, or whose aux file, ends inside the data block of its
\* patch.
CutShortInit ==
    /\ solution = <<>>
    /\ frame = 0
    /\ file_prefix = "fort"
    /\ write_aux = FALSE
    /\ \E sol \in RampSolutions :
         /\ Len(sol) = 1
         /\ \/ /\ qgiven = "qshort"
               /\ read_aux = FALSE
               /\ \E k \in Len(SubHeader(sol[1])) .. Len(QBlock(sol[1], sol[1].meqn)) - 1 :
                     path = Put(Put(NoFiles, "fort.t0000",
                                    FrameHeader(sol[1].t, sol[1].meqn, 1, 1, Len(sol[1].n))),
                                "fort.q0000", SubSeq(QBlock(sol[1], sol[1].meqn), 1, k))
            \/ /\ qgiven = "auxshort"
               /\ read_aux = TRUE
               /\ \E k \in Len(SubHeader(sol[1])) .. Len(AuxBlock(sol[1])) - 1 :
                     path = Put(Put(Put(NoFiles, "fort.t0000",
                                        FrameHeader(sol[1].t, sol[1].meqn, 1, 1,
                                                    Len(sol[1].n))),
                                    "fort.q0000", QBlock(sol[1], sol[1].meqn)),
                                "fort.a0000", SubSeq(AuxBlock(sol[1]), 1, k))
    /\ auxgiven = <<>>
    /\ target = <<>>

\* write_ascii of a solution without patches.
EmptyWriteInit ==
    /\ solution = <<>>
    /\ \E ca \in CallArgs : frame = ca[1] /\ file_prefix = ca[2]
    /\ write_aux \in BOOLEAN
    /\ read_aux \in BOOLEAN
    /\ path = NoFiles
    /\ auxgiven = <<>>
    /\ qgiven = "none"
    /\ target = <<>>

AmrInit ==
    /\ HeaderIdle
    /\ GridIdle
    /\ SubsetIdle
    /\ ToolsIdle
    /\ \/ RoundTripInit
       \/ AuxInit
       \/ EmptyFrameInit
       \/ AppendInit
       \/ RecutInit
       \/ CutShortInit
       \/ EmptyWriteInit
    /\ apc = "start"
    /\ awstatus = "none"
    /\ arstatus = "none"

\* write_ascii(solution, frame, path, file_prefix, write_aux)
WriteAscii ==
    /\ apc = "start"
    /\ qgiven = "none"
    /\ LET w == write_ascii(solution, frame, file_prefix, write_aux, path)
       IN  awstatus' = w.status /\ path' = w.path
    /\ apc' = "written"
    /\ UNCHANGED <<solution, frame, file_prefix, write_aux, read_aux, auxgiven, qgiven,
                   target, arstatus, nonavars>>

\* read_ascii(target, frame, path, file_prefix, read_aux)
ReadAscii ==
    /\ apc \in {"start", "written"}
    /\ LET r == read_ascii(target, frame, file_prefix, read_aux, path)
       IN  arstatus' = r.status /\ target' = r.solution
    /\ apc' = "read"
    /\ UNCHANGED <<solution, frame, file_prefix, write_aux, read_aux, path, auxgiven,
                   qgiven, awstatus, nonavars>>

AmrNext == WriteAscii \/ ReadAscii

SpecAmr == AmrInit /\ [][AmrNext]_vars

-----------------------------------------------------------------------------
(* Claims about write_ascii and read_ascii                                 *)

\* Patch r holds what patch g held, every float as its nine significant
\* digits give it back.
ReproducesPatch(r, g) ==
    /\ r.gridno = g.gridno /\ r.level = g.level /\ r.n = g.n
    /\ r.meqn = g.meqn /\ r.maux = g.maux /\ r.t = Round9(g.t)
    /\ \A i \in 1 .. Len(g.n) :
          r.lower[i] = Round9(g.lower[i]) /\ r.d[i] = Round9(g.d[i])
    /\ DOMAIN r.q = Cells(g.n)
    /\ \A c \in Cells(g.n) : \A m \in 1 .. g.meqn : r.q[c][m] = Round9(g.q[c][m])

\* read_ascii was given an empty solution: it never removes a patch, and the
\* patch of a solution given non-empty is OldPatch.
ReadIntoEmpty == \A p \in 1 .. Len(target) : target[p] # OldPatch(target[p].maux)

\* C2: AMR round trip.  After write_ascii of a solution of ndim 1 or 2 with
\* unique grid numbers and read_ascii of the frame (default file_prefix, no
\* aux) into an empty solution, the solution read holds the same number of
\* patches and per patch the same t, meqn, maux, ndim, grid number, level, n,
\* lower, d and q at every index.
C2_RoundTrip ==
    (/\ apc = "read" /\ awstatus = "ok" /\ ~read_aux /\ ReadIntoEmpty
     /\ file_prefix = "fort" /\ frame >= 0
     /\ Len(solution[1].n) \in {1, 2}) =>
        /\ arstatus = "ok"
        /\ Len(target) = Len(solution)
        /\ \A p \in 1 .. Len(solution) : ReproducesPatch(target[p], solution[p])

\* read_ascii has read all patches of the q file and then the aux file given.
AuxWasRead == apc = "read" /\ auxgiven # <<>> /\ Len(target) = Len(solution)

\* The patch read from the q file under the grid number of an aux patch.
PrimaryOf(ap) == target[CHOOSE p \in 1 .. Len(target) : target[p].gridno = ap.shown.gridno]

\* The aux sub-header differs from the primary patch: level or a size, or a
\* lower or d by 1e-4 or more.
Mismatch(ap, g) ==
    \/ ap.shown.level # g.level
    \/ ap.shown.n # g.n
    \/ \E i \in 1 .. Len(g.n) :
          \/ ~Within1e4(g.lower[i], Round9(ap.shown.lower[i]))
          \/ ~Within1e4(g.d[i], Round9(ap.shown.d[i]))

AuxValues(g) == [c \in Cells(g.n) |-> [m \in 1 .. g.maux |-> Round9(g.aux[c][m])]]

\* The aux patch of the file for primary patch g.
GivenFor(g) == auxgiven[CHOOSE k \in 1 .. Len(auxgiven) : auxgiven[k].shown.gridno = g.gridno]

\* C9: when read_ascii reads an aux file, a sub-header that does not match
\* the primary patch of the same grid number (level, n, or lower/d by 1e-4 or
\* more) ends the read with IOError; without a mismatch every patch gets the
\* aux values filed under its grid number, in whatever order the aux file
\* holds the patches; no patch ever holds aux values of another grid number.
C9_AuxCheckedByGridNumber ==
    AuxWasRead =>
        /\ (\E k \in 1 .. Len(auxgiven) : Mismatch(auxgiven[k], PrimaryOf(auxgiven[k])))
              => arstatus = "IOError"
        /\ (\A k \in 1 .. Len(auxgiven) : ~Mismatch(auxgiven[k], PrimaryOf(auxgiven[k])))
              => /\ arstatus = "ok"
                 /\ \A p \in 1 .. Len(target) :
                       target[p].aux = AuxValues(GivenFor(target[p]).grid)
        /\ \A p \in 1 .. Len(target) :
              target[p].aux \in {ZerosAux(target[p].n, target[p].maux),
                                 AuxValues(GivenFor(target[p]).grid)}

\* The aux file holds the patches in another order than the q file; the
\* first one was stored under its grid number, the second one did not match
\* and ended the read.
C9_Witness ==
    /\ AuxWasRead
    /\ arstatus = "IOError"
    /\ Len(target) = 2
    /\ auxgiven[1].shown.gridno = target[2].gridno
    /\ target[2].aux = AuxValues(auxgiven[1].grid)
    /\ Mismatch(auxgiven[2], target[1])

\* The frame header read_ascii found.
FrameRead == FrameOf(read_ascii_t(path, frame, file_prefix).vals)

\* C19: after read_ascii has returned normally the solution holds exactly
\* the ngrids patches of the frame header, in the order of their sub-headers
\* in the q file (for a frame write_ascii wrote, the order of the solution
\* written), whatever the solution held before.
C19_ExactlyNgridsInFileOrder ==
    (apc = "read" /\ arstatus = "ok") =>
        /\ Len(target) = FrameRead.ngrids
        /\ (FrameRead.ngrids > 0 /\ solution # <<>>) =>
              \A p \in 1 .. Len(target) : target[p].gridno = solution[p].gridno

\* The data block of the one patch of the frame given in path, and its
\* whitespace-separated tokens in stream order.
DataBlock ==
    SubSeq(path["fort.q0000"], 3 * FrameRead.ndim + 4, Len(path["fort.q0000"]))

BlockTokens == Flatten([i \in 1 .. Len(DataBlock) |-> split(DataBlock[i])])

\* C25: read_ascii gives the cells of a patch the tokens of its data block
\* in stream order, component m of the c-th cell being token c*meqn + m,
\* wherever the line breaks of the block are.
C25_TokensInStreamOrder ==
    (apc = "read" /\ qgiven = "recut") =>
        /\ arstatus = "ok"
        /\ Len(target) = 1
        /\ \A c \in 1 .. NCells(target[1].n), m \in 1 .. FrameRead.meqn :
              target[1].q[Idx(target[1].n, c)][m]
                = FloatOf(BlockTokens[(c - 1) * FrameRead.meqn + m])

\* The number of cells the sub-header of the patch gives.
CellsGiven ==
    NCells([i \in 1 .. FrameRead.ndim |-> IntOf(split(path["fort.q0000"][2 + i])[1])])

\* The frame given in path ends before the cells of its patch are filled.
CellsMissing ==
    \/ /\ qgiven = "qshort"
       /\ Len(BlockTokens) < FrameRead.meqn * CellsGiven
    \/ /\ qgiven = "auxshort"
       /\ Len(Flatten(SubSeq(path["fort.a0000"], 3 * FrameRead.ndim + 4,
                             Len(path["fort.a0000"]))))
            < FrameRead.maux * CellsGiven

\* C28: read_ascii comes to an end on every q file and every aux file: when
\* the file ends before the cells of all patches are filled the call stops
\* with an exception.
C28_ShortFileIsAnError ==
    (apc = "read" /\ qgiven \in {"qshort", "auxshort"}) =>
        /\ arstatus # "hang"
        /\ CellsMissing => arstatus # "ok"

\* C29: a frame without patches is handled without error.  write_ascii of a
\* solution without patches returns normally and leaves a frame header with
\* ngrids = 0; read_ascii of a frame with ngrids = 0 returns normally and adds
\* no patch to the solution.
C29_EmptyFrameIsHandled ==
    /\ (apc = "written" /\ solution = <<>>) =>
          /\ awstatus = "ok"
          /\ FrameRead.ngrids = 0
    /\ (apc = "read" /\ qgiven = "empty") =>
          /\ arstatus = "ok"
          /\ target \in {<<>>, <<OldPatch(0)>>, <<OldPatch(1)>>}

\* The names read_ascii_t (line 435) and read_ascii (lines 216, 327) open for
\* the frame: the t file, the q file, and the aux file if one was written.
NamesRead ==
    {file_prefix \o ".t" \o zfill4(frame), file_prefix \o ".q" \o zfill4(frame)}
    \cup (IF write_aux /\ solution[1].maux > 0
          THEN {file_prefix \o ".a" \o zfill4(frame)} ELSE {})

\* C26: the files write_ascii(file_prefix=p) writes for frame N >= 0 are
\* p.tNNNN, p.qNNNN and, when aux is written, p.aNNNN: the names read_ascii
\* and read_ascii_t open for the frame with the same file_prefix.
C26_WriterAndReaderAgreeOnNames ==
    (apc = "written" /\ solution # <<>> /\ frame >= 0 /\ auxgiven = <<>>) =>
        DOMAIN path = NamesRead

\* write_ascii was called with write_aux=True on patches with maux > 0.
WroteAux == apc = "written" /\ write_aux /\ solution # <<>> /\ solution[1].maux > 0

IsLabelled(line) == Len(line) = 2 /\ line[2].kind = "s"

\* The lines af repeat the lines qf: the same sub-header lines, a blank line
\* where qf has one, and a line of ncomp values where qf has a line of values.
SameLayout(qf, af, ncomp) ==
    /\ Len(af) = Len(qf)
    /\ \A i \in 1 .. Len(qf) :
          IF qf[i] = <<>> \/ IsLabelled(qf[i]) THEN af[i] = qf[i]
          ELSE Len(af[i]) = ncomp /\ \A m \in 1 .. ncomp : af[i][m].kind = "e"

\* C21: with write_aux=True and maux > 0 write_ascii returns normally and the
\* aux file has, patch by patch, the sub-headers and the line layout of the
\* q file, with maux values on each data line.
C21_AuxFileMirrorsQFile ==
    WroteAux =>
        /\ awstatus = "ok"
        /\ ("fort.a" \o zfill4(frame)) \in DOMAIN path
        /\ SameLayout(path["fort.q" \o zfill4(frame)], path["fort.a" \o zfill4(frame)],
                      solution[1].maux)

\* read_ascii was called on a frame whose header gives ndim = 3.
Read3d ==
    /\ apc = "read"
    /\ frame >= 0
    /\ read_ascii_t(path, frame, file_prefix).status = "ok"
    /\ FrameRead.ndim = 3

\* C10: read_ascii on a frame whose header gives ndim = 3 fails with
\* NotImplementedError, for every ngrids and with or without aux.
C10_Read3dUnsupported == Read3d => arstatus = "NotImplementedError"

\* C10 as the code has it: no 3-D patch is ever put into the solution, and
\* with at least one patch in a q file that is there, the read fails with
\* NotImplementedError.
C10_Read3dUnsupportedWithPatches ==
    Read3d =>
        /\ \A p \in 1 .. Len(target) : Len(target[p].n) # 3
        /\ (FrameRead.ngrids >= 1 /\ (file_prefix \o ".q" \o zfill4(frame)) \in DOMAIN path)
              => arstatus = "NotImplementedError"

C10_Witness ==
    /\ Read3d
    /\ FrameRead.ngrids >= 1
    /\ read_aux
    /\ arstatus = "NotImplementedError"

-----------------------------------------------------------------------------
(* topofilefindz and griddatafindz                                         *)

\* Numbers of the sampling code are exact fractions n/d with d > 0 in lowest
\* terms.  The grids of the model have spacings 1 and 2 and the points lie on
\* halves of a spacing, so every float the code computes is such a fraction.
\* np.nan is the fraction 0/0.
RECURSIVE Gcd(_, _)
Gcd(a, b) == IF b = 0 THEN a ELSE Gcd(b, a % b)

Frac(n, d) ==
    IF d > 0 THEN [n |-> n \div Gcd(Abs(n), d), d |-> d \div Gcd(Abs(n), d)]
    ELSE [n |-> (-n) \div Gcd(Abs(n), -d), d |-> (-d) \div Gcd(Abs(n), -d)]

Whole(i) == [n |-> i, d |-> 1]

nan == [n |-> 0, d |-> 0]

FAdd(a, b) == Frac(a.n * b.d + b.n * a.d, a.d * b.d)

FSub(a, b) == Frac(a.n * b.d - b.n * a.d, a.d * b.d)

FMul(a, b) == Frac(a.n * b.n, a.d * b.d)

FDiv(a, b) == Frac(a.n * b.d, a.d * b.n)

FLess(a, b) == a.n * b.d < b.n * a.d

FLeq(a, b) == a.n * b.d <= b.n * a.d

\* Line 793 / 872: the point lies outside the box of the cell centres.
OutsideGrid_BorderIsOutside(x, y, X, Y) ==
    \/ FLeq(x, Whole(X[1][1]))
    \/ FLeq(Whole(X[1][Len(X[1])]), x)
    \/ FLeq(y, Whole(Y[Len(Y)][1]))
    \/ FLeq(Whole(Y[1][1]), y)

OutsideGrid(x, y, X, Y) ==
    \/ FLess(x, Whole(X[1][1]))
    \/ FLess(Whole(X[1][Len(X[1])]), x)
    \/ FLess(y, Whole(Y[Len(Y)][1]))
    \/ FLess(Whole(Y[1][1]), y)

SetMax(S) == CHOOSE m \in S : \A k \in S : k <= m

SetMin(S) == CHOOSE m \in S : \A k \in S : m <= k

\* Lines 811-815 / 890-894: the columns west (i0) and east (i1) of x and the
\* rows south (j0) and north (j1) of y; equal when the point is on a grid line.
\* Rows run from north to south, so the first row at or below y is the one
\* just south of it.
Corners(x, y, X, Y) ==
    [i0 |-> SetMax({c \in 1 .. Len(X[1]) : FLeq(Whole(X[1][c]), x)}),
     i1 |-> SetMin({c \in 1 .. Len(X[1]) : FLeq(x, Whole(X[1][c]))}),
     j0 |-> SetMin({r \in 1 .. Len(Y) : FLeq(Whole(Y[r][1]), y)}),
     j1 |-> SetMax({r \in 1 .. Len(Y) : FLeq(y, Whole(Y[r][1]))})]

\* Lines 834-839 / 913-918: the slopes along the south row (dzdx0) and the
\* north row (dzdx1).
Slope(za, zb, xa, xb, same) ==
    IF same THEN Whole(0) ELSE FDiv(FSub(zb, za), FSub(xb, xa))

\* Lines 842-843 / 921-922.
Along(z0, x, x0, dzdx) == FAdd(z0, FMul(FSub(x, x0), dzdx))

\* Lines 845-850 / 924-929 without the slope in y: the value on the south row.
Upward_SouthRowOnly(zy0, zy1, y, c, Y) == zy0

Upward(zy0, zy1, y, c, Y) ==
    Along(zy0, y, Whole(Y[c.j0][c.i0]),
          Slope(zy0, zy1, Whole(Y[c.j0][c.i0]), Whole(Y[c.j1][c.i1]), c.j0 = c.j1))

\* Lines 817-850 / 896-929 for the corners c.
InterpolateAt(x, y, c, X, Y, Z) ==
    Upward(Along(Whole(Z[c.j0][c.i0]), x, Whole(X[c.j0][c.i0]),
                 Slope(Whole(Z[c.j0][c.i0]), Whole(Z[c.j0][c.i1]),
                       Whole(X[c.j0][c.i0]), Whole(X[c.j1][c.i1]), c.i0 = c.i1)),
           Along(Whole(Z[c.j1][c.i0]), x, Whole(X[c.j1][c.i0]),
                 Slope(Whole(Z[c.j1][c.i0]), Whole(Z[c.j1][c.i1]),
                       Whole(X[c.j0][c.i0]), Whole(X[c.j1][c.i1]), c.i0 = c.i1)),
           y, c, Y)

\* One pass of the loop of lines 789-850 / 868-929.
FindOne(pt, X, Y, Z, sentinel) ==
    IF OutsideGrid(pt[1], pt[2], X, Y) THEN sentinel
    ELSE InterpolateAt(pt[1], pt[2], Corners(pt[1], pt[2], X, Y), X, Y, Z)

\* findz that appends nothing for a point outside the grid.
findz_DropsOutside(points, X, Y, Z, sentinel) ==
    [status |-> "ok",
     z |-> [i \in 1 .. Len(SelectSeq(points, LAMBDA pt : ~OutsideGrid(pt[1], pt[2], X, Y))) |->
              FindOne(SelectSeq(points, LAMBDA pt : ~OutsideGrid(pt[1], pt[2], X, Y))[i],
                      X, Y, Z, sentinel)]]

findz(points, X, Y, Z, sentinel) ==
    [status |-> "ok",
     z |-> [i \in 1 .. Len(points) |-> FindOne(points[i], X, Y, Z, sentinel)]]

griddatafindz(points, X, Y, Z) == findz(points, X, Y, Z, Whole(-9999))

FindLoaded(points, g) ==
    IF g.status # "ok" THEN [status |-> g.status, z |-> <<>>]
    ELSE findz(points, g.X, g.Y, g.Z, nan)

\* topofilefindz: inputfile is a file name (lines 782-783) or the tuple
\* (X, Y, Z) itself (line 785).
topofilefindz(points, inputfile, grid, tt) ==
    IF inputfile.exists THEN FindLoaded(points, topofile2griddata(inputfile, tt))
    ELSE findz(points, grid.X, grid.Y, grid.Z, nan)

-----------------------------------------------------------------------------
(* Grids, files and query points given to the two sampling calls           *)

\* Query lists hold up to MaxPts points.
MaxPts == 2

FindPatterns == {"steps", "twist"}

\* "steps" rises by 2 per column eastwards and by 4 per row northwards (a
\* unit cell has the corner values 0, 2, 4, 6); "twist" lies in no plane.
FindValue(pattern, r, c, nrows) ==
    IF pattern = "steps" THEN 2 * (c - 1) + 4 * (nrows - r) ELSE r * c

\* Cell centres from (0, 0) with spacing cs, rows from north to south.
FindGrid(nrows, ncols, cs, pattern) ==
    [X |-> [r \in 1 .. nrows |-> [c \in 1 .. ncols |-> (c - 1) * cs]],
     Y |-> [r \in 1 .. nrows |-> [c \in 1 .. ncols |-> (nrows - r) * cs]],
     Z |-> [r \in 1 .. nrows |-> [c \in 1 .. ncols |-> FindValue(pattern, r, c, nrows)]],
     nodata |-> -9999]

ZTokOf ==
    [v \in (0 .. 6) \cup {-9999} |->
        IF v = -9999 THEN "-9999"
        ELSE <<"0.0", "1.0", "2.0", "3.0", "4.0", "5.0", "6.0">>[v + 1]]

\* The topo file of a grid with spacing 2: of type 2 (one value per line) or
\* of type 3 (one row per line).
FindFile(g, layout) ==
    [exists |-> TRUE,
     lines |-> GridFileHeader(Len(g.Z), Len(g.Z[1])) \o
               (IF layout = 2
                THEN [k \in 1 .. Len(g.Z) * Len(g.Z[1]) |->
                        <<ZTokOf[g.Z[((k - 1) \div Len(g.Z[1])) + 1][((k - 1) % Len(g.Z[1])) + 1]]>>]
                ELSE [r \in 1 .. Len(g.Z) |-> [c \in 1 .. Len(g.Z[1]) |-> ZTokOf[g.Z[r][c]]]])]

HasFile(g, cs) ==
    /\ cs = 2
    /\ \A r \in 1 .. Len(g.Z) : \A c \in 1 .. Len(g.Z[1]) : g.Z[r][c] \in DOMAIN ZTokOf

\* Points on the half spacings of a grid, from half a cell outside it.
HalfPoints(nrows, ncols, cs) ==
    { <<Frac(kx * cs, 2), Frac(ky * cs, 2)>> :
          <<kx, ky>> \in (-1 .. 2 * ncols - 1) \X (-1 .. 2 * nrows - 1) }

\* A point beyond each side of the grid, the north-west node and the centre
\* of the south-west cell.
ProbePoints(nrows, ncols, cs) ==
    { <<Frac(-cs, 2), Whole(0)>>, <<Frac((2 * ncols - 1) * cs, 2), Whole(0)>>,
      <<Whole(0), Frac(-cs, 2)>>, <<Whole(0), Frac((2 * nrows - 1) * cs, 2)>>,
      <<Whole(0), Whole((nrows - 1) * cs)>>, <<Frac(cs, 2), Frac(cs, 2)>> }

\* Every list of one point, and the lists of up to MaxPts probe points.
QueryLists(nrows, ncols, cs) ==
    { <<pt>> : pt \in HalfPoints(nrows, ncols, cs) } \cup
    UNION { [1 .. n -> ProbePoints(nrows, ncols, cs)] : n \in 0 .. MaxPts }

\* A file with its topotypein: types 2 and 3, and a call that says type 1.
FindFileTypes == { <<2, 2>>, <<3, 3>>, <<3, 1>> }

FindInit ==
    /\ HeaderIdle
    /\ GridIdle
    /\ SubsetIdle
    /\ AmrIdle
    /\ MergeIdle
    /\ ConvertIdle
    /\ GridSubsetIdle
    /\ WriterIdle
    /\ PlotIdle
    /\ \E t \in (1 .. MaxRows) \X (1 .. MaxCols) \X {1, 2} \X FindPatterns :
          /\ findgrid = FindGrid(t[1], t[2], t[3], t[4])
          /\ pts \in QueryLists(t[1], t[2], t[3])
          /\ \/ findfile = NoFile /\ findtype = 2
             \/ /\ HasFile(FindGrid(t[1], t[2], t[3], t[4]), t[3])
                /\ \E lt \in FindFileTypes :
                      /\ findfile = FindFile(FindGrid(t[1], t[2], t[3], t[4]), lt[1])
                      /\ findtype = lt[2]
    /\ fpc = "start"
    /\ fstatus = "none"
    /\ z = <<>>

\* z = topofilefindz(pts, inputfile, topotypein)
TopoFileFindZ ==
    /\ fpc = "start"
    /\ LET r == topofilefindz(pts, findfile, findgrid, findtype)
       IN  fstatus' = r.status /\ z' = r.z
    /\ fpc' = "file"
    /\ UNCHANGED <<findfile, findtype, findgrid, pts, nonfvars>>

\* z = griddatafindz(pts, X, Y, Z)
GridDataFindZ ==
    /\ fpc = "start"
    /\ LET r == griddatafindz(pts, findgrid.X, findgrid.Y, findgrid.Z)
       IN  fstatus' = r.status /\ z' = r.z
    /\ fpc' = "grid"
    /\ UNCHANGED <<findfile, findtype, findgrid, pts, nonfvars>>

FindNext == TopoFileFindZ \/ GridDataFindZ

SpecFind == FindInit /\ [][FindNext]_vars

-----------------------------------------------------------------------------
(* Claims about topofilefindz and griddatafindz                            *)

\* One of the two calls was made on a grid it could load.
FindDone ==
    /\ fpc \in {"file", "grid"}
    /\ (fpc = "file" /\ findfile.exists) => topofile2griddata(findfile, findtype).status = "ok"

Sentinel == IF fpc = "file" THEN nan ELSE Whole(-9999)

\* The point lies in the bounding box of the cell centres of findgrid.
InGridBox(pt) ==
    /\ \E c \in 1 .. Len(findgrid.X[1]) : FLeq(Whole(findgrid.X[1][c]), pt[1])
    /\ \E c \in 1 .. Len(findgrid.X[1]) : FLeq(pt[1], Whole(findgrid.X[1][c]))
    /\ \E r \in 1 .. Len(findgrid.Y) : FLeq(Whole(findgrid.Y[r][1]), pt[2])
    /\ \E r \in 1 .. Len(findgrid.Y) : FLeq(pt[2], Whole(findgrid.Y[r][1]))

\* The values of zz at the points of the list that lie in the box.
RECURSIVE KeptValues(_, _)
KeptValues(points, zz) ==
    IF points = <<>> \/ zz = <<>> THEN <<>>
    ELSE (IF InGridBox(Head(points)) THEN <<Head(zz)>> ELSE <<>>)
         \o KeptValues(Tail(points), Tail(zz))

\* What the call made returns for another list of points.
SameCallOn(points) ==
    IF fpc = "file" THEN topofilefindz(points, findfile, findgrid, findtype).z
    ELSE griddatafindz(points, findgrid.X, findgrid.Y, findgrid.Z).z

\* C11: topofilefindz and griddatafindz return one value per point in query
\* order; a point outside the bounding box gets the sentinel (NaN, -9999), the
\* call does not abort, and the other points get what they get in a list
\* without the outside points.
C11_OneValuePerPoint ==
    FindDone =>
        /\ fstatus = "ok"
        /\ Len(z) = Len(pts)
        /\ \A i \in 1 .. Len(pts) : ~InGridBox(pts[i]) => z[i] = Sentinel
        /\ KeptValues(pts, z) = SameCallOn(SelectSeq(pts, InGridBox))

\* A list whose first point is outside and whose second point is inside.
C11_Witness ==
    /\ FindDone
    /\ Len(pts) = 2
    /\ ~InGridBox(pts[1]) /\ InGridBox(pts[2])
    /\ z[1] = Sentinel /\ z[2] # Sentinel

\* C12: sampling at the coordinates of a node, border and corner nodes
\* included, returns the Z of that node.
C12_ExactAtNodes ==
    (FindDone /\ fstatus = "ok" /\ Len(z) = Len(pts)) =>
        \A i \in 1 .. Len(pts) :
            \A r \in 1 .. Len(findgrid.Z) : \A c \in 1 .. Len(findgrid.Z[1]) :
                pts[i] = <<Whole(findgrid.X[r][c]), Whole(findgrid.Y[r][c])>>
                    => z[i] = Whole(findgrid.Z[r][c])

\* The south-east corner node of a grid read from a file.
C12_Witness ==
    /\ FindDone /\ fstatus = "ok"
    /\ fpc = "file" /\ findfile.exists
    /\ Len(findgrid.Z) = 2 /\ Len(findgrid.Z[1]) >= 2
    /\ pts = << <<Whole(findgrid.X[2][Len(findgrid.Z[1])]), Whole(0)>> >>
    /\ z = <<Whole(findgrid.Z[2][Len(findgrid.Z[1])])>>

\* The rows and columns of findgrid that bracket an inside point: the nearest
\* at or below and the nearest at or above.
West(pt) == CHOOSE c \in 1 .. Len(findgrid.X[1]) :
    /\ FLeq(Whole(findgrid.X[1][c]), pt[1])
    /\ \A k \in 1 .. Len(findgrid.X[1]) :
          FLeq(Whole(findgrid.X[1][k]), pt[1]) => findgrid.X[1][k] <= findgrid.X[1][c]

East(pt) == CHOOSE c \in 1 .. Len(findgrid.X[1]) :
    /\ FLeq(pt[1], Whole(findgrid.X[1][c]))
    /\ \A k \in 1 .. Len(findgrid.X[1]) :
          FLeq(pt[1], Whole(findgrid.X[1][k])) => findgrid.X[1][c] <= findgrid.X[1][k]

South(pt) == CHOOSE r \in 1 .. Len(findgrid.Y) :
    /\ FLeq(Whole(findgrid.Y[r][1]), pt[2])
    /\ \A k \in 1 .. Len(findgrid.Y) :
          FLeq(Whole(findgrid.Y[k][1]), pt[2]) => findgrid.Y[k][1] <= findgrid.Y[r][1]

North(pt) == CHOOSE r \in 1 .. Len(findgrid.Y) :
    /\ FLeq(pt[2], Whole(findgrid.Y[r][1]))
    /\ \A k \in 1 .. Len(findgrid.Y) :
          FLeq(pt[2], Whole(findgrid.Y[k][1])) => findgrid.Y[r][1] <= findgrid.Y[k][1]

\* The share of the way from a to b at which v lies; 0 when a = b.
Share(v, a, b) == IF a = b THEN Whole(0) ELSE FDiv(FSub(v, Whole(a)), Whole(b - a))

\* za + t * (zb - za)
Lerp(za, zb, t) == FAdd(za, FMul(t, FSub(zb, za)))

\* The bilinear interpolant of the four nodes around pt: linear in x along
\* the south row and along the north row, then linear in y between the two.
Bilinear(pt) ==
    Lerp(Lerp(Whole(findgrid.Z[South(pt)][West(pt)]), Whole(findgrid.Z[South(pt)][East(pt)]),
              Share(pt[1], findgrid.X[1][West(pt)], findgrid.X[1][East(pt)])),
         Lerp(Whole(findgrid.Z[North(pt)][West(pt)]), Whole(findgrid.Z[North(pt)][East(pt)]),
              Share(pt[1], findgrid.X[1][West(pt)], findgrid.X[1][East(pt)])),
         Share(pt[2], findgrid.Y[South(pt)][1], findgrid.Y[North(pt)][1]))

\* C13: for an inside point the two calls return the bilinear interpolant of
\* the four nodes that bracket it.
C13_Bilinear ==
    (FindDone /\ fstatus = "ok" /\ Len(z) = Len(pts)) =>
        \A i \in 1 .. Len(pts) : InGridBox(pts[i]) => z[i] = Bilinear(pts[i])

\* The centre of the unit cell with corner values 0, 2, 4, 6 gives 3.
C13_Witness ==
    /\ FindDone /\ fstatus = "ok"
    /\ findgrid.Z = << <<4, 6>>, <<0, 2>> >>
    /\ findgrid.X[1] = <<0, 1>>
    /\ pts = << <<Frac(1, 2), Frac(1, 2)>> >>
    /\ z = <<Whole(3)>>

-----------------------------------------------------------------------------
(* merge_topofiles                                                         *)

FAbs(a) == [n |-> Abs(a.n), d |-> a.d]

\* Line 1437: the cell centre lies in the box of the primary grid.
InPrimaryBox(x, y, g1) ==
    /\ FLeq(Whole(g1.X[1][1]), x)
    /\ FLeq(x, Whole(g1.X[Len(g1.X)][Len(g1.X[1])]))
    /\ FLeq(Whole(g1.Y[Len(g1.Y)][Len(g1.Y[1])]), y)
    /\ FLeq(y, Whole(g1.Y[1][1]))

\* Line 1439: abs(z - nodata_valuein) < 1.0
NearNodata(zz, nd) == FLess(FAbs(FSub(zz, Whole(nd))), Whole(1))

SampleOf(x, y, g) == griddatafindz(<< <<x, y>> >>, g.X, g.Y, g.Z).z[1]

\* Lines 1438-1441 for the primary sample zz.
MergePrimary(zz, x, y, g2, nd) == IF NearNodata(zz, nd) THEN SampleOf(x, y, g2) ELSE zz

\* Lines 1434-1443: one cell of Z.
MergeCell(x, y, g1, g2, nd) ==
    IF InPrimaryBox(x, y, g1) THEN MergePrimary(SampleOf(x, y, g1), x, y, g2, nd)
    ELSE SampleOf(x, y, g2)

\* Lines 1420-1424: `not nodata_valuein` holds for None and for 0; the header
\* of the primary file then gives the value.
MergeNodata(f1, tt1, nd) ==
    IF tt1 > 1 /\ (~nd.given \/ nd.val = 0)
    THEN topoheaderread(f1.lines).hdr["nodata_value"].val
    ELSE nd.val

MergeArray(X, Y, g1, g2, nd) ==
    [r \in 1 .. Len(X) |-> [c \in 1 .. Len(X[1]) |->
        MergeCell(Whole(X[r][c]), Whole(Y[r][c]), g1, g2, nd)]]

MergeWritten(Z, w) == [status |-> w.status, Z |-> Z, disk |-> w.disk]

\* Lines 1412-1447 once both files were handed to topofile2griddata.
MergeLoaded(X, Y, g1, g2, outputfile, tt1, nd) ==
    IF g1.status # "ok" THEN [status |-> g1.status, Z |-> <<>>, disk |-> outputfile]
    ELSE IF g2.status # "ok" THEN [status |-> g2.status, Z |-> <<>>, disk |-> outputfile]
    ELSE MergeWritten(MergeArray(X, Y, g1, g2, nd),
                      griddata2topofile(X, Y, MergeArray(X, Y, g1, g2, nd), outputfile,
                                        tt1, nd, nd))

\* merge_topofiles with topotypeout=None (line 1427: topotypein1 is taken).
merge_topofiles(X, Y, inputfile1, inputfile2, outputfile, tt1, tt2, nd) ==
    MergeLoaded(X, Y, topofile2griddata(inputfile1, tt1), topofile2griddata(inputfile2, tt2),
                outputfile, tt1,
                IF topofile2griddata(inputfile1, tt1).status = "ok"
                THEN MergeNodata(inputfile1, tt1, nd) ELSE 0)

\* The primary grids: two or four nodes, one of them nodata in "hole".
PrimaryGrids ==
    { [X |-> [r \in 1 .. t[1] |-> [c \in 1 .. 2 |-> 2 * (c - 1)]],
       Y |-> [r \in 1 .. t[1] |-> [c \in 1 .. 2 |-> 2 * (t[1] - r)]],
       Z |-> [r \in 1 .. t[1] |-> [c \in 1 .. 2 |-> CellValue(t[2], r, c, 2)]],
       nodata |-> -9999] : t \in {1, 2} \X {"hole", "ramp"} }

SecondaryGrids == { FindGrid(1, 1, 2, "twist"), FindGrid(2, 3, 2, "twist") }

\* Output grids: cell centres from (ox, oy) with spacing cs.
MergeGrids ==
    { [X |-> [r \in 1 .. t[1] |-> [c \in 1 .. t[2] |-> t[3] + (c - 1) * t[5]]],
       Y |-> [r \in 1 .. t[1] |-> [c \in 1 .. t[2] |-> t[4] + (t[1] - r) * t[5]]],
       Z |-> <<>>, nodata |-> 0] :
         t \in (1 .. MaxRows) \X (1 .. MaxCols) \X {0, 1} \X {0, 1} \X {1, 2} }

MergeInit ==
    /\ HeaderIdle
    /\ GridIdle
    /\ SubsetIdle
    /\ AmrIdle
    /\ FindIdle
    /\ ConvertIdle
    /\ GridSubsetIdle
    /\ WriterIdle
    /\ PlotIdle
    /\ mgrid \in MergeGrids
    /\ \E g \in PrimaryGrids : \E lt \in FindFileTypes :
          mfile1 = FindFile(g, lt[1]) /\ mtype1 = lt[2]
    /\ \E g \in SecondaryGrids : \E tt \in {2, 3} :
          mfile2 = FindFile(g, tt) /\ mtype2 = tt
    /\ mnodata \in {NoValueGiven, [given |-> TRUE, val |-> 3]}
    /\ mout = NoFile
    /\ mpc = "start"
    /\ mstatus = "none"
    /\ mZ = <<>>

\* merge_topofiles(X, Y, inputfile1, inputfile2, outputfile, topotypein1,
\*                 topotypein2, None, nodata_valuein)
MergeTopofiles ==
    /\ mpc = "start"
    /\ LET m == merge_topofiles(mgrid.X, mgrid.Y, mfile1, mfile2, mout, mtype1, mtype2, mnodata)
       IN  mstatus' = m.status /\ mZ' = m.Z /\ mout' = m.disk
    /\ mpc' = "done"
    /\ UNCHANGED <<mgrid, mfile1, mfile2, mtype1, mtype2, mnodata, nonmvars>>

MergeNext == MergeTopofiles

SpecMerge == MergeInit /\ [][MergeNext]_vars

-----------------------------------------------------------------------------
(* Claims about merge_topofiles                                            *)

PrimaryGrid == topofile2griddata(mfile1, mtype1)

SecondaryGrid == topofile2griddata(mfile2, mtype2)

\* merge_topofiles was called on two files that can be loaded.
MergeDone == mpc = "done" /\ PrimaryGrid.status = "ok" /\ SecondaryGrid.status = "ok"

PrimaryNodata ==
    IF mnodata.given THEN mnodata.val
    ELSE topoheaderread(mfile1.lines).hdr["nodata_value"].val

\* The hard precedence rule: the primary's sample where the point is in the
\* primary's box and the sample is not nodata, the secondary's sample elsewhere.
Preferred(x, y) ==
    IF InPrimaryBox(x, y, PrimaryGrid) /\ SampleOf(x, y, PrimaryGrid) # Whole(PrimaryNodata)
    THEN SampleOf(x, y, PrimaryGrid)
    ELSE SampleOf(x, y, SecondaryGrid)

\* C14: merge_topofiles writes an output that holds, at every cell of the
\* output grid, the primary's sample where the cell is in the primary's box
\* and not nodata there, and the secondary's sample everywhere else.
C14_PrimaryThenSecondary ==
    MergeDone =>
        /\ mstatus = "ok"
        /\ mout.exists
        /\ topofile2griddata(mout, mtype1).status = "ok"
        /\ \A r \in 1 .. Len(mgrid.X) : \A c \in 1 .. Len(mgrid.X[1]) :
              Whole(topofile2griddata(mout, mtype1).Z[r][c])
                  = Preferred(Whole(mgrid.X[r][c]), Whole(mgrid.Y[r][c]))

-----------------------------------------------------------------------------
(* converttopotype, topofilesubset (cheap=False) and topofilesubsample     *)

\* `not nodata_value` (lines 740, 960, 1061): None and 0 count as not given.
Missing(nd) == ~nd.given \/ nd.val = 0

\* Lines 740-744 / 960-965 / 1061-1066: the header's nodata_value is taken for
\* a type 2 or 3 source; for a type-1 source without a value the code prints
\* "You must provide a value" and goes on with None (0 here).
NodataFor(inputfile, tt, nd) ==
    IF tt > 1 /\ Missing(nd) THEN topoheaderread(inputfile.lines).hdr["nodata_value"].val
    ELSE nd.val

\* A[0::s, 0::s]
Subsample(A, s) ==
    [i \in 1 .. ((Len(A) - 1) \div s) + 1 |->
        [j \in 1 .. ((Len(A[1]) - 1) \div s) + 1 |-> A[(i - 1) * s + 1][(j - 1) * s + 1]]]

\* Lines 740-746 once topofile2griddata has ended with g.
ConvertLoaded(g, inputfile, outputfile, tt, ttout, nd) ==
    IF g.status # "ok" THEN [status |-> g.status, disk |-> outputfile]
    ELSE griddata2topofile(g.X, g.Y, g.Z, outputfile, ttout,
                           NodataFor(inputfile, tt, nd), NodataFor(inputfile, tt, nd))

converttopotype(inputfile, outputfile, tt, ttout, nd) ==
    ConvertLoaded(topofile2griddata(inputfile, tt), inputfile, outputfile, tt, ttout, nd)

\* Lines 960-971 once topofile2griddata has ended with g.
SubsetLoaded(g, inputfile, outputfile, tt, ttout, b, nd) ==
    IF g.status # "ok" THEN [status |-> g.status, disk |-> outputfile]
    ELSE griddata2topofile(griddatasubset(g.X, g.Y, g.Z, b).X,
                           griddatasubset(g.X, g.Y, g.Z, b).Y,
                           griddatasubset(g.X, g.Y, g.Z, b).Z, outputfile, ttout,
                           NodataFor(inputfile, tt, nd), NodataFor(inputfile, tt, nd))

\* topofilesubset with cheap=False.
topofilesubset(inputfile, outputfile, tt, ttout, b, nd) ==
    SubsetLoaded(topofile2griddata(inputfile, tt), inputfile, outputfile, tt, ttout, b, nd)

\* Lines 1061-1074 once topofile2griddata has ended with g.
SubsampleLoaded(g, inputfile, outputfile, sampleinteger, tt, ttout, nd) ==
    IF g.status # "ok" THEN [status |-> g.status, disk |-> outputfile]
    ELSE griddata2topofile(Subsample(g.X, sampleinteger), Subsample(g.Y, sampleinteger),
                           Subsample(g.Z, sampleinteger), outputfile, ttout,
                           NodataFor(inputfile, tt, nd), NodataFor(inputfile, tt, nd))

topofilesubsample(inputfile, outputfile, sampleinteger, tt, ttout, nd) ==
    SubsampleLoaded(topofile2griddata(inputfile, tt), inputfile, outputfile,
                    sampleinteger, tt, ttout, nd)

\* A type-1 file: one line "x y z" per node, rows from north to south.
Type1File(g) ==
    [exists |-> TRUE,
     lines |-> [k \in 1 .. Len(g.Z) * Len(g.Z[1]) |->
                  <<ZTokOf[g.X[((k - 1) \div Len(g.Z[1])) + 1][((k - 1) % Len(g.Z[1])) + 1]],
                    ZTokOf[g.Y[((k - 1) \div Len(g.Z[1])) + 1][((k - 1) % Len(g.Z[1])) + 1]],
                    ZTokOf[g.Z[((k - 1) \div Len(g.Z[1])) + 1][((k - 1) % Len(g.Z[1])) + 1]]>>]]

\* Source files with the topotypein they are read with.
ConvertSources ==
    UNION { {<<Type1File(g), 1>>} \cup {<<FindFile(g, lt[1]), lt[2]>> : lt \in FindFileTypes} :
              g \in {f \in {FindGrid(t[1], t[2], 2, t[3]) :
                                t \in (1 .. MaxRows) \X (1 .. MaxCols) \X FindPatterns} :
                        HasFile(f, 2)} }

\* The box topofilesubset takes when none is given (lines 941-944).
DefaultBox == [xlow |-> -1000000, xhi |-> 1000000, ylow |-> -1000000, yhi |-> 1000000]

ConvertInit ==
    /\ HeaderIdle
    /\ GridIdle
    /\ SubsetIdle
    /\ AmrIdle
    /\ FindIdle
    /\ MergeIdle
    /\ GridSubsetIdle
    /\ WriterIdle
    /\ PlotIdle
    /\ \E src \in ConvertSources : kfile = src[1] /\ ktypein = src[2]
    /\ ktypeout \in {1, 2, 3}
    /\ knodata \in {NoValueGiven, [given |-> TRUE, val |-> 0], [given |-> TRUE, val |-> -9999]}
    /\ kout = NoFile
    /\ kpc = "start"
    /\ kstatus = "none"

\* converttopotype(inputfile, outputfile, topotypein, topotypeout, nodata_value)
ConvertTopoType ==
    /\ kpc = "start"
    /\ LET w == converttopotype(kfile, kout, ktypein, ktypeout, knodata)
       IN  kstatus' = w.status /\ kout' = w.disk
    /\ kpc' = "converttopotype"
    /\ UNCHANGED <<kfile, ktypein, ktypeout, knodata, nonkvars>>

\* topofilesubset(inputfile, outputfile, topotypein, topotypeout,
\*                nodata_value_in=nodata_value_in, cheap=False)
TopoFileSubset ==
    /\ kpc = "start"
    /\ LET w == topofilesubset(kfile, kout, ktypein, ktypeout, DefaultBox, knodata)
       IN  kstatus' = w.status /\ kout' = w.disk
    /\ kpc' = "topofilesubset"
    /\ UNCHANGED <<kfile, ktypein, ktypeout, knodata, nonkvars>>

\* topofilesubsample(inputfile, outputfile, sampleinteger, topotypein,
\*                   topotypeout, nodata_value_in)
TopoFileSubsample ==
    /\ kpc = "start"
    /\ \E sampleinteger \in {1, 2} :
          LET w == topofilesubsample(kfile, kout, sampleinteger, ktypein, ktypeout, knodata)
          IN  kstatus' = w.status /\ kout' = w.disk
    /\ kpc' = "topofilesubsample"
    /\ UNCHANGED <<kfile, ktypein, ktypeout, knodata, nonkvars>>

ConvertNext == ConvertTopoType \/ TopoFileSubset \/ TopoFileSubsample

SpecConvert == ConvertInit /\ [][ConvertNext]_vars

-----------------------------------------------------------------------------
(* Claims about converting a type-1 source                                 *)

\* One of the three calls was made on a type-1 source, for output of type 2
\* or 3, without a nodata value.
Type1WithoutNodata ==
    /\ kpc \in {"converttopotype", "topofilesubset", "topofilesubsample"}
    /\ ktypein = 1
    /\ ktypeout \in {2, 3}
    /\ Missing(knodata)

-----------------------------------------------------------------------------
(* griddatasubset as a call of its own                                     *)

GridSubsetInit ==
    /\ HeaderIdle
    /\ GridIdle
    /\ SubsetIdle
    /\ AmrIdle
    /\ FindIdle
    /\ MergeIdle
    /\ ConvertIdle
    /\ WriterIdle
    /\ PlotIdle
    /\ \E t \in (1 .. MaxRows) \X (1 .. MaxCols) \X {1, 2} \X FindPatterns :
          subgrid = FindGrid(t[1], t[2], t[3], t[4])
    /\ subbox \in Boxes \cup {DefaultBox}
    /\ subout = NoGrid
    /\ bpc = "start"

\* (Xsub, Ysub, Zsub) = griddatasubset(X, Y, Z, xlow, xhi, ylow, yhi).  The
\* index arrays select copies (lines 765-767): X, Y, Z stay as they are.
GridDataSubset ==
    /\ bpc = "start"
    /\ subout' = [X |-> griddatasubset(subgrid.X, subgrid.Y, subgrid.Z, subbox).X,
                  Y |-> griddatasubset(subgrid.X, subgrid.Y, subgrid.Z, subbox).Y,
                  Z |-> griddatasubset(subgrid.X, subgrid.Y, subgrid.Z, subbox).Z,
                  nodata |-> subgrid.nodata]
    /\ bpc' = "done"
    /\ UNCHANGED <<subgrid, subbox, nonbvars>>

GridSubsetNext == GridDataSubset

SpecGridSubset == GridSubsetInit /\ [][GridSubsetNext]_vars

-----------------------------------------------------------------------------
(* Claims about griddatasubset                                             *)

\* The rows and the columns of subgrid whose coordinate lies in the box.
RowsInBox == {r \in 1 .. Len(subgrid.Y) :
                 subbox.ylow <= subgrid.Y[r][1] /\ subgrid.Y[r][1] <= subbox.yhi}

ColsInBox == {c \in 1 .. Len(subgrid.X[1]) :
                 subbox.xlow <= subgrid.X[1][c] /\ subgrid.X[1][c] <= subbox.xhi}

\* The k-th member of a set of indices, counted from the smallest.
Nth(S, k) == CHOOSE e \in S : Cardinality({x \in S : x < e}) = k - 1

\* Array B holds the rows and columns of A that lie in the box, in A's order.
IsSelection(B, A) ==
    /\ Len(B) = Cardinality(RowsInBox)
    /\ \A i \in 1 .. Len(B) :
          /\ Len(B[i]) = Cardinality(ColsInBox)
          /\ \A j \in 1 .. Len(B[i]) : B[i][j] = A[Nth(RowsInBox, i)][Nth(ColsInBox, j)]

SubsetReturned ==
    bpc = "done" =>
        /\ IsSelection(subout.X, subgrid.X)
        /\ IsSelection(subout.Y, subgrid.Y)
        /\ IsSelection(subout.Z, subgrid.Z)
        /\ (RowsInBox = 1 .. Len(subgrid.Y) /\ ColsInBox = 1 .. Len(subgrid.X[1]))
              => (subout.X = subgrid.X /\ subout.Y = subgrid.Y /\ subout.Z = subgrid.Z)

\* C18: griddatasubset returns the rows with Y in [ylow, yhi] and the columns
\* with X in [xlow, xhi], bounds included, in their order and with X, Y, Z
\* aligned; a box around the whole domain returns the input; the input
\* arrays are not changed by the call.
C18_SubsetIsSelection ==
    /\ []SubsetReturned
    /\ [][subgrid' = subgrid]_vars

\* A box whose northern bound lies on the northern row and that cuts columns.
C18_Witness ==
    /\ bpc = "done"
    /\ subbox.yhi = subgrid.Y[1][1]
    /\ Len(subout.Z) >= 1
    /\ Len(subout.Z[1]) >= 1
    /\ Len(subout.Z[1]) < Len(subgrid.Z[1])
    /\ subout.Y[1][1] = subbox.yhi

-----------------------------------------------------------------------------
(* topo1writer and topo2writer                                             *)

\* One conversion of a format string: "%22.15e" of a number of at most 16
\* significant digits (its digits m without the trailing zeros, the exponent
\* sci of the first digit), "%6i" / "%10i" of an integer, or a word.
E15(v) ==
    [kind |-> "e", neg |-> v < 0, m |-> Canon(Abs(v), 0).m,
     sci |-> IF v = 0 THEN 0 ELSE NDigits(Abs(v)) - 1, s |-> ""]

I10(n) == [kind |-> "i", neg |-> n < 0, m |-> Abs(n), sci |-> 0, s |-> ""]

Word(s) == [kind |-> "s", neg |-> FALSE, m |-> 0, sci |-> 0, s |-> s]

\* The topo functions handed to the writers, evaluated at one point.
TopoAt(topo, x, y) == IF topo = "plane" THEN x + 5 * y ELSE x * x - y

\* np.linspace(lo, hi, n) for n >= 2
linspace(lo, hi, n) == [k \in 1 .. n |-> lo + (k - 1) * ((hi - lo) \div (n - 1))]

\* X, Y = np.meshgrid(x, y): arrays of Len(y) rows and Len(x) columns.
meshgrid(x, y) ==
    [X |-> [j \in 1 .. Len(y) |-> [i \in 1 .. Len(x) |-> x[i]]],
     Y |-> [j \in 1 .. Len(y) |-> [i \in 1 .. Len(x) |-> y[j]]]]

\* topo(X, Y) on arrays: the function at every element.
TopoOn(topo, X, Y) ==
    [j \in 1 .. Len(X) |-> [i \in 1 .. Len(X[j]) |-> TopoAt(topo, X[j][i], Y[j][i])]]

\* A.T
Transpose(A) == [i \in 1 .. Len(A[1]) |-> [j \in 1 .. Len(A) |-> A[j][i]]]

\* Lines 152-155 and 222-225: Z[i, j] is topo at (x[i], y[j]).
MeshZ(a) ==
    Transpose(TopoOn(a.topo,
                     meshgrid(linspace(a.xlower, a.xupper, a.nxpoints),
                              linspace(a.ylower, a.yupper, a.nypoints)).X,
                     meshgrid(linspace(a.xlower, a.xupper, a.nxpoints),
                              linspace(a.ylower, a.yupper, a.nypoints)).Y))

\* The row of line jj is taken from the south.
RowIndex_SouthFirst(nypoints, jj) == jj

\* Lines 160 and 229: j = nypoints - 1 - jj
RowIndex(nypoints, jj) == nypoints - 1 - jj

\* Lines 157-162: one line "x y z" per point.
Topo1Lines(Z, a, dx, dy) ==
    [k \in 1 .. a.nxpoints * a.nypoints |->
        <<E15(a.xlower + ((k - 1) % a.nxpoints) * dx),
          E15(a.yupper - ((k - 1) \div a.nxpoints) * dy),
          E15(Z[((k - 1) % a.nxpoints) + 1]
               [RowIndex(a.nypoints, (k - 1) \div a.nxpoints) + 1])>>]

\* topo1writer (lines 136-166).  The file is opened before dx is computed
\* (line 148), so a division by zero leaves it empty.
topo1writer(outfile, a) ==
    IF a.nxpoints = 1 \/ a.nypoints = 1
    THEN [status |-> "ZeroDivisionError", disk |-> [exists |-> TRUE, lines |-> <<>>]]
    ELSE [status |-> "returned",
          disk |-> [exists |-> TRUE,
                    lines |-> Topo1Lines(MeshZ(a),
                                         a, (a.xupper - a.xlower) \div (a.nxpoints - 1),
                                         (a.yupper - a.ylower) \div (a.nypoints - 1))]]

\* Lines 211-216.
Topo2Header(a, cellsize, nodata_value) ==
    << <<I10(a.nxpoints), Word("ncols")>>, <<I10(a.nypoints), Word("nrows")>>,
       <<E15(a.xlower), Word("xlower")>>, <<E15(a.ylower), Word("ylower")>>,
       <<E15(cellsize), Word("cellsize")>>, <<I10(nodata_value), Word("nodata_value")>> >>

\* Lines 227-230: one value per line.
Topo2Lines(Z, a) ==
    [k \in 1 .. a.nxpoints * a.nypoints |->
        <<E15(Z[((k - 1) % a.nxpoints) + 1]
               [RowIndex(a.nypoints, (k - 1) \div a.nxpoints) + 1])>>]

\* topo2writer (lines 170-234) with the default nodata_value.  With dx # dy
\* it prints "*** Error in topo2writer, need dx=dy" and returns (lines
\* 198-201) before the file is opened.
topo2writer(outfile, a) ==
    IF a.nxpoints = 1 \/ a.nypoints = 1
    THEN [status |-> "ZeroDivisionError", disk |-> outfile]
    ELSE IF (a.xupper - a.xlower) \div (a.nxpoints - 1)
              # (a.yupper - a.ylower) \div (a.nypoints - 1)
    THEN [status |-> "returned", disk |-> outfile]
    ELSE [status |-> "returned",
          disk |-> [exists |-> TRUE,
                    lines |-> Topo2Header(a, (a.xupper - a.xlower) \div (a.nxpoints - 1),
                                          -99999)
                              \o Topo2Lines(MeshZ(a), a)]]

\* The meshes have up to MaxPoints points a side.
MaxPoints == 3

\* Meshes of whole-number spacing 1 or 2 in x and in y.
WriterArgs ==
    { [topo |-> t[1], xlower |-> t[2], xupper |-> t[2] + t[4] * (t[6] - 1),
       ylower |-> t[3], yupper |-> t[3] + t[5] * (t[7] - 1),
       nxpoints |-> t[6], nypoints |-> t[7]] :
         t \in {"plane", "bowl"} \X {0, 10} \X {-2} \X {1, 2} \X {1, 2}
                 \X (1 .. MaxPoints) \X (1 .. MaxPoints) }

WriterInit ==
    /\ HeaderIdle
    /\ GridIdle
    /\ SubsetIdle
    /\ AmrIdle
    /\ FindIdle
    /\ MergeIdle
    /\ ConvertIdle
    /\ GridSubsetIdle
    /\ PlotIdle
    /\ wargs \in WriterArgs
    /\ wfile1 = NoFile
    /\ wfile2 = NoFile
    /\ wpc1 = "start"
    /\ wpc2 = "start"

Topo1Writer ==
    /\ wpc1 = "start"
    /\ wpc1' = topo1writer(wfile1, wargs).status
    /\ wfile1' = topo1writer(wfile1, wargs).disk
    /\ UNCHANGED <<wargs, wfile2, wpc2, nonwvars>>

Topo2Writer ==
    /\ wpc2 = "start"
    /\ wpc2' = topo2writer(wfile2, wargs).status
    /\ wfile2' = topo2writer(wfile2, wargs).disk
    /\ UNCHANGED <<wargs, wfile1, wpc1, nonwvars>>

WriterNext == Topo1Writer \/ Topo2Writer

SpecWriter == WriterInit /\ [][WriterNext]_vars

-----------------------------------------------------------------------------
(* Claims about topo1writer and topo2writer                                *)

\* The spacings of the mesh of at least two points a side.
MeshDx == (wargs.xupper - wargs.xlower) \div (wargs.nxpoints - 1)

MeshDy == (wargs.yupper - wargs.ylower) \div (wargs.nypoints - 1)

\* The point of data line k (from 0): column k mod nxpoints, row k div
\* nxpoints from the north.
PointX(k) == wargs.xlower + (k % wargs.nxpoints) * MeshDx

PointY(k) == wargs.yupper - (k \div wargs.nxpoints) * MeshDy

\* outfile of topo2writer: the six header lines, then one z per point.
IsTopo2File(f) ==
    /\ f.exists
    /\ Len(f.lines) = 6 + wargs.nxpoints * wargs.nypoints
    /\ SubSeq(f.lines, 1, 6)
         = << <<I10(wargs.nxpoints), Word("ncols")>>, <<I10(wargs.nypoints), Word("nrows")>>,
              <<E15(wargs.xlower), Word("xlower")>>, <<E15(wargs.ylower), Word("ylower")>>,
              <<E15(MeshDx), Word("cellsize")>>, <<I10(-99999), Word("nodata_value")>> >>
    /\ \A k \in 0 .. wargs.nxpoints * wargs.nypoints - 1 :
          f.lines[6 + k + 1] = <<E15(TopoAt(wargs.topo, PointX(k), PointY(k)))>>

\* outfile of topo1writer: one line x y z per point.
IsTopo1File(f) ==
    /\ f.exists
    /\ Len(f.lines) = wargs.nxpoints * wargs.nypoints
    /\ \A k \in 0 .. wargs.nxpoints * wargs.nypoints - 1 :
          f.lines[k + 1] = <<E15(PointX(k)), E15(PointY(k)),
                             E15(TopoAt(wargs.topo, PointX(k), PointY(k)))>>

\* C23 as stated: whatever the mesh, topo2writer leaves the header and the
\* nxpoints*nypoints values, topo1writer the same points as triples.
C23_WritersWriteTheMesh ==
    /\ wpc2 \notin {"start", "idle"} => wpc2 = "returned" /\ IsTopo2File(wfile2)
    /\ wpc1 \notin {"start", "idle"} => wpc1 = "returned" /\ IsTopo1File(wfile1)

\* C23, amended: for a mesh of at least two points a side topo1writer writes
\* one line x y z per point from north to south and west to east, and when
\* the two spacings are equal topo2writer writes the six header lines and
\* the z of the same points in the same order.
C23_WritersWriteTheMeshAmended ==
    (wargs.nxpoints >= 2 /\ wargs.nypoints >= 2) =>
        /\ (wpc2 = "returned" /\ MeshDx = MeshDy) => IsTopo2File(wfile2)
        /\ wpc1 = "returned" => IsTopo1File(wfile1)

\* Both writers have written a mesh of more than one row whose topo depends
\* on x and on y.
C23_Witness ==
    /\ wpc1 = "returned"
    /\ wpc2 = "returned"
    /\ wargs.nxpoints = 3
    /\ wargs.nypoints = 2
    /\ MeshDx = MeshDy
    /\ Len(wfile2.lines) = 12
    /\ Len(wfile1.lines) = 6
    /\ wfile2.lines[7] # wfile2.lines[10]

-----------------------------------------------------------------------------
(* frametools.py: set_show                                                 *)

\* Lines 1921-1922: plotitem._show = plotitem.show for every item.
ShowItems(items) == [i \in DOMAIN items |-> [items[i] EXCEPT !._show = items[i].show]]

\* Lines 1923-1931 for one axes with show set: an item is showing, or the
\* axes has an afteraxes or the type "empty".
AxesShowing(plotaxes) ==
    \/ \E i \in DOMAIN plotaxes.items : plotaxes.items[i].show
    \/ plotaxes.afteraxes # "None"
    \/ plotaxes.type = "empty"

\* Lines 1917-1931: the body of the loop over the axes of a figure.
ShowAxes(plotaxes) ==
    IF plotaxes.show
    THEN [plotaxes EXCEPT !._show = AxesShowing(plotaxes), !.items = ShowItems(plotaxes.items)]
    ELSE [plotaxes EXCEPT !._show = FALSE]

\* Lines 1912-1931: the body of the loop over the figures.  Under a figure
\* with show unset the axes and items are not visited.
ShowFigure(plotfigure) ==
    IF plotfigure.show
    THEN [plotfigure EXCEPT
            !._show = \E a \in DOMAIN plotfigure.axes :
                          plotfigure.axes[a].show /\ AxesShowing(plotfigure.axes[a]),
            !.axes = [a \in DOMAIN plotfigure.axes |-> ShowAxes(plotfigure.axes[a])]]
    ELSE [plotfigure EXCEPT !._show = FALSE]

\* set_show (lines 1899-1933)
set_show(pd) == [f \in DOMAIN pd |-> ShowFigure(pd[f])]

\* The plot data: one figure with one or two axes of at most one item.  The
\* _show flags are as the calls before left them.
PlotItems == {<<>>} \cup {<<it>> : it \in [show : BOOLEAN, _show : BOOLEAN]}

PlotAxes ==
    [show : BOOLEAN, _show : BOOLEAN, afteraxes : {"None", "f"},
     type : {"empty", "each_frame"}, items : PlotItems]

PlotFigures ==
    [show : BOOLEAN, _show : BOOLEAN,
     axes : {<<a>> : a \in PlotAxes} \cup {<<a, b>> : a \in PlotAxes, b \in PlotAxes}]

PlotInit ==
    /\ HeaderIdle
    /\ GridIdle
    /\ SubsetIdle
    /\ AmrIdle
    /\ FindIdle
    /\ MergeIdle
    /\ ConvertIdle
    /\ GridSubsetIdle
    /\ WriterIdle
    /\ \E plotfigure \in PlotFigures : plotdata = <<plotfigure>>
    /\ ppc = "start"

\* plotdata = set_show(plotdata)
SetShow ==
    /\ plotdata' = set_show(plotdata)
    /\ ppc' = "returned"
    /\ UNCHANGED nonpvars

\* Between the calls the show flag of a figure, of an axes or of an item is
\* changed.
ChangeFigureShow ==
    /\ \E f \in DOMAIN plotdata : plotdata' = [plotdata EXCEPT ![f].show = ~@]
    /\ ppc' = "changed"
    /\ UNCHANGED nonpvars

ChangeAxesShow ==
    /\ \E f \in DOMAIN plotdata : \E a \in DOMAIN plotdata[f].axes :
          plotdata' = [plotdata EXCEPT ![f].axes[a].show = ~@]
    /\ ppc' = "changed"
    /\ UNCHANGED nonpvars

ChangeItemShow ==
    /\ \E f \in DOMAIN plotdata : \E a \in DOMAIN plotdata[f].axes :
          \E i \in DOMAIN plotdata[f].axes[a].items :
             plotdata' = [plotdata EXCEPT ![f].axes[a].items[i].show = ~@]
    /\ ppc' = "changed"
    /\ UNCHANGED nonpvars

PlotNext == SetShow \/ ChangeFigureShow \/ ChangeAxesShow \/ ChangeItemShow

SpecPlot == PlotInit /\ [][PlotNext]_vars

-----------------------------------------------------------------------------
(* Claims about set_show                                                   *)

\* plotfigure._show only with plotfigure.show and an axes with _show.
FigureShowIsJustified(plotfigure) ==
    plotfigure._show =>
        /\ plotfigure.show
        /\ \E a \in DOMAIN plotfigure.axes : plotfigure.axes[a]._show

\* plotaxes._show only with plotaxes.show and an item with show, or the type
\* "empty".
AxesShowIsJustified(plotaxes) ==
    plotaxes._show =>
        /\ plotaxes.show
        /\ \/ \E i \in DOMAIN plotaxes.items : plotaxes.items[i].show
           \/ plotaxes.type = "empty"

\* C30: once set_show has returned, after any calls and changes of show
\* flags before it, every _show of a figure and of an axes is justified.
C30_ShowFlagsAreJustified ==
    ppc = "returned" =>
        \A f \in DOMAIN plotdata :
            /\ FigureShowIsJustified(plotdata[f])
            /\ \A a \in DOMAIN plotdata[f].axes : AxesShowIsJustified(plotdata[f].axes[a])

=============================================================================
